---- MODULE Spec2Model ----
(***************************************************************************)
(* InvisioVault: LSB image steganography (backend/utils/steganography.py), *)
(* the polyglot composer (backend/utils/polyglot.py) and the QR fragment   *)
(* codec (backend/utils/qr_stego.py).                                      *)
(*                                                                         *)
(* Byte strings are sequences of integers 0..255.  For the steganography   *)
(* engine a Python str is kept as the sequence of its UTF-8 bytes and      *)
(* decoding is the UTF-8 validity check; for the QR codec a str is the     *)
(* sequence of its code points, encoded and decoded as UTF-8.              *)
(* Library primitives that are not code of the repository (zlib, Fernet,   *)
(* PBKDF2, AES-CBC, zipfile) are modelled by small invertible stand-ins    *)
(* that keep what the callers rely on: lengths that depend on the content, *)
(* integrity checks that reject garbage, and keys that differ whenever the *)
(* password or the salt differs.                                           *)
(***************************************************************************)
EXTENDS Integers, Sequences, FiniteSets, TLC

(***************************************************************************)
(* Bounds of the model.                                                    *)
(***************************************************************************)
MaxPayloadLen == 2

(***************************************************************************)
(* Generic helpers: Python slices, integers <-> bytes, sums.               *)
(***************************************************************************)
Min(a, b) == IF a < b THEN a ELSE b

Max(a, b) == IF a > b THEN a ELSE b

\* Python s[a:b] for 0 <= a (0-based, end clamped to the length).
PySlice(s, a, b) == SubSeq(s, a + 1, Min(b, Len(s)))

\* Python s[a:].
PyFrom(s, a) == SubSeq(s, a + 1, Len(s))

\* The sum of a sequence of numbers, by halves.
RECURSIVE SumSeq(_)
SumSeq(s) ==
    IF s = <<>> THEN 0
    ELSE IF Len(s) = 1 THEN s[1]
    ELSE LET h == Len(s) \div 2
         IN  SumSeq(SubSeq(s, 1, h)) + SumSeq(SubSeq(s, h + 1, Len(s)))

RECURSIVE Pow(_, _)
Pow(b, e) == IF e = 0 THEN 1 ELSE b * Pow(b, e - 1)

\* int.from_bytes(s, 'big'); the empty slice gives 0.
RECURSIVE FromBytesBE(_)
FromBytesBE(s) ==
    IF s = <<>> THEN 0
    ELSE FromBytesBE(SubSeq(s, 1, Len(s) - 1)) * 256 + s[Len(s)]

\* int.from_bytes(s, 'little').
RECURSIVE FromBytesLE(_)
FromBytesLE(s) ==
    IF s = <<>> THEN 0 ELSE s[1] + 256 * FromBytesLE(Tail(s))

\* v.to_bytes(n, ...) raises OverflowError when v does not fit in n bytes.
Overflows(v, n) == v < 0 \/ (v \div Pow(256, n - 1)) >= 256

\* v.to_bytes(n, 'big') for a value that fits.
ToBytesBE(v, n) == [i \in 1..n |-> (v \div Pow(256, n - i)) % 256]

\* v.to_bytes(n, 'little') for a value that fits.
ToBytesLE(v, n) == [i \in 1..n |-> (v \div Pow(256, i - 1)) % 256]

\* bytes.find(sig): the 0-based index of the first occurrence, -1 if none.
Find(s, sig) ==
    LET hits == {i \in 0..(Len(s) - Len(sig)) : PySlice(s, i, i + Len(sig)) = sig}
    IN  IF hits = {} THEN -1 ELSE CHOOSE i \in hits : \A j \in hits : i <= j

\* bytes.rfind(sig): the 0-based index of the last occurrence, -1 if none.
RFind(s, sig) ==
    LET hits == {i \in 0..(Len(s) - Len(sig)) : PySlice(s, i, i + Len(sig)) = sig}
    IN  IF hits = {} THEN -1 ELSE CHOOSE i \in hits : \A j \in hits : i >= j

\* bytes.decode('utf-8') succeeds exactly on well-formed UTF-8.
IsCont(s, i) == i <= Len(s) /\ s[i] >= 128 /\ s[i] <= 191

RECURSIVE Utf8From(_, _)
Utf8From(s, i) ==
    IF i > Len(s) THEN TRUE
    ELSE LET b == s[i] IN
         IF b < 128 THEN Utf8From(s, i + 1)
         ELSE IF b >= 194 /\ b <= 223
              THEN IsCont(s, i + 1) /\ Utf8From(s, i + 2)
         ELSE IF b >= 224 /\ b <= 239
              THEN /\ IsCont(s, i + 1) /\ IsCont(s, i + 2)
                   /\ (b = 224 => s[i + 1] >= 160)
                   /\ (b = 237 => s[i + 1] <= 159)
                   /\ Utf8From(s, i + 3)
         ELSE IF b >= 240 /\ b <= 244
              THEN /\ IsCont(s, i + 1) /\ IsCont(s, i + 2) /\ IsCont(s, i + 3)
                   /\ (b = 240 => s[i + 1] >= 144)
                   /\ (b = 244 => s[i + 1] <= 143)
                   /\ Utf8From(s, i + 4)
         ELSE FALSE

Utf8Valid(s) == Utf8From(s, 1)

\* str.split(sep) for a one-byte separator: the list of parts.
RECURSIVE SplitByte(_, _)
SplitByte(s, sep) ==
    LET hits == {i \in 1..Len(s) : s[i] = sep} IN
    IF hits = {} THEN <<s>>
    ELSE LET i == CHOOSE k \in hits : \A j \in hits : k <= j
         IN  <<SubSeq(s, 1, i - 1)>> \o SplitByte(SubSeq(s, i + 1, Len(s)), sep)

(***************************************************************************)
(* Passwords.  None is Python's None; "" is the empty string.  Both are    *)
(* falsy in `if password:`.                                                *)
(***************************************************************************)
None == "None"

Truthy(password) == password # None /\ password # ""

\* password.encode(): the bytes of the password.
PwBytes(password) ==
    IF password = "p" THEN <<112>>
    ELSE IF password = "q" THEN <<113>>
    ELSE IF password = "pw" THEN <<112, 119>>
    ELSE <<>>

(***************************************************************************)
(* zlib stand-in: header 78 DA, a sequence of blocks of up to MaxBlock      *)
(* bytes (stored: type, length, bytes; run: type, length, byte; type 0 or  *)
(* 1 for the last block, 2 or 3 for one that is followed by another), and  *)
(* a 4-byte big-endian checksum 1 + sum (mod 65521).  The output is        *)
(* len + 8 bytes for short data that does not compress and a few bytes     *)
(* more for long data, as zlib's, and much shorter for a run.              *)
(***************************************************************************)
ZHeader == <<120, 218>>

MaxBlock == 255

Adler(p) == (1 + SumSeq(p)) % 65521

IsRun(p) == Len(p) >= 2 /\ \A i \in 1..Len(p) : p[i] = p[1]

\* One block: a run of one byte, or the bytes as they are.
Block(chunk, last) ==
    IF IsRun(chunk)
    THEN <<(IF last THEN 1 ELSE 3), Len(chunk), chunk[1]>>
    ELSE <<(IF last THEN 0 ELSE 2), Len(chunk)>> \o chunk

\* A stream that never shortens its input: every block is stored.
RECURSIVE DeflateStored(_)
DeflateStored(p) ==
    IF Len(p) <= MaxBlock THEN <<0, Len(p)>> \o p
    ELSE <<2, MaxBlock>> \o SubSeq(p, 1, MaxBlock)
         \o DeflateStored(SubSeq(p, MaxBlock + 1, Len(p)))

\* A raw deflate stream: the blocks of the input, the last one marked.
RECURSIVE Deflate(_)
Deflate(p) ==
    IF Len(p) <= MaxBlock THEN Block(p, TRUE)
    ELSE Block(SubSeq(p, 1, MaxBlock), FALSE)
         \o Deflate(SubSeq(p, MaxBlock + 1, Len(p)))

\* The bytes a well-formed stream holds, or <<-1>> when it is malformed.
ZError == <<-1>>

\* The blocks that start at 1-based position pos: the bytes they hold and
\* the position after the last block, or ok = FALSE for a malformed or
\* cut-short stream.
RECURSIVE InflateAt(_, _)
InflateAt(z, pos) ==
    IF pos + 1 > Len(z) \/ z[pos] \notin 0..3
    THEN [ok |-> FALSE, data |-> <<>>, end |-> pos]
    ELSE LET run == z[pos] % 2 = 1
             size == IF run THEN 3 ELSE z[pos + 1] + 2
         IN  IF pos + size - 1 > Len(z)
             THEN [ok |-> FALSE, data |-> <<>>, end |-> pos]
             ELSE LET chunk == IF run THEN [i \in 1..z[pos + 1] |-> z[pos + 2]]
                               ELSE SubSeq(z, pos + 2, pos + size - 1)
                  IN  IF z[pos] < 2
                      THEN [ok |-> TRUE, data |-> chunk, end |-> pos + size]
                      ELSE LET rest == InflateAt(z, pos + size)
                           IN  [rest EXCEPT !.data = chunk \o rest.data]

Inflate(d) ==
    LET r == InflateAt(d, 1)
    IN  IF r.ok /\ r.end = Len(d) + 1 THEN r.data ELSE ZError

zlib_compress(p) == ZHeader \o Deflate(p) \o ToBytesBE(Adler(p), 4)

\* zlib.decompress: the data, or ZError for zlib.error.  The stream ends
\* where its blocks and checksum end; bytes after it are ignored, a stream
\* cut short is an error.
zlib_decompress(z) ==
    IF Len(z) < 4 \/ SubSeq(z, 1, 2) # ZHeader THEN ZError
    ELSE LET r == InflateAt(z, 3)
         IN  IF ~r.ok \/ r.end + 3 > Len(z) THEN ZError
             ELSE IF Adler(r.data) = FromBytesBE(SubSeq(z, r.end, r.end + 3))
                  THEN r.data ELSE ZError

(***************************************************************************)
(* PBKDF2 and Fernet stand-ins.  The derived key is a byte that differs    *)
(* whenever the password or the salt differs (within the model's domain);  *)
(* the token is version 0x80, the shifted bytes, and a keyed checksum.     *)
(* Decryption with another key fails the checksum, as Fernet's HMAC does.  *)
(***************************************************************************)
_derive_key_from_password(password, salt) ==
    (3 * SumSeq(PwBytes(password)) + SumSeq(salt)) % 256

FernetMac(key, ct) == (SumSeq(ct) + 7 * key + 13) % 256

FernetEncrypt(key, data) ==
    LET ct == [i \in 1..Len(data) |-> (data[i] + key) % 256]
    IN  <<128>> \o ct \o <<FernetMac(key, ct)>>

\* The plaintext, or <<-1>> for InvalidToken.
InvalidToken == <<-1>>

FernetDecrypt(key, token) ==
    IF Len(token) < 2 \/ token[1] # 128 THEN InvalidToken
    ELSE LET ct == SubSeq(token, 2, Len(token) - 1) IN
         IF token[Len(token)] # FernetMac(key, ct) THEN InvalidToken
         ELSE [i \in 1..Len(ct) |-> (ct[i] - key) % 256]

(***************************************************************************)
(* State.                                                                  *)
(*   hide_file_in_image: hpc is the position in the function; hin holds    *)
(*   its arguments (the carrier image file, the file to hide, the          *)
(*   password); host_pixels, compressed_data, salt and data_to_hide are    *)
(*   its locals; out_file is the file at output_path; herr the exception.  *)
(*   extract_file_from_image: xpc, xpassword, data_bytes, xframe (the      *)
(*   parsed fields), xresult (the returned tuple), xerr; kdf_calls counts  *)
(*   the calls of _derive_key_from_password made by the extraction.        *)
(***************************************************************************)
VARIABLES hpc, hin, host_pixels, compressed_data, salt, data_to_hide,
          out_file, herr,
          xpc, xpassword, data_bytes, xframe, xresult, xerr, kdf_calls

stegoVars == <<hpc, hin, host_pixels, compressed_data, salt, data_to_hide,
               out_file, herr,
               xpc, xpassword, data_bytes, xframe, xresult, xerr, kdf_calls>>

(***************************************************************************)
(*   create_polyglot: ppc is the position in the function; pin holds its   *)
(*   arguments and the step at which the file system raises OSError;       *)
(*   temp_zip is the temporary archive, output the file at output_path,    *)
(*   cd_pos the walk position of _fix_zip_offsets, perr the exception.     *)
(*   extract_from_polyglot: epc, epassword, edata (the bytes of the file   *)
(*   it was given), etemp (its temporary archive),                         *)
(*   eresult (the returned tuple), eerr.  HAS_PYZIPPER is the module flag. *)
(***************************************************************************)
VARIABLES HAS_PYZIPPER, ppc, pin, temp_zip, output, cd_pos, perr,
          epc, epassword, edata, etemp, eresult, eerr

polyVars == <<HAS_PYZIPPER, ppc, pin, temp_zip, output, cd_pos, perr,
              epc, epassword, edata, etemp, eresult, eerr>>

(***************************************************************************)
(*   generate_qr_with_stego: qpc is the position in the function, qin its  *)
(*   arguments and the salt and iv os.urandom returns; secret_payload and  *)
(*   combined_qr_data are its locals; gpc is the position in its second    *)
(*   half, temp_qr whether its temporary file exists, qr_image the file at *)
(*   output_path and gerr the error it raised.                             *)
(*   extract_from_qr_stego: dpc, dpassword, qr_data (the text the scanner  *)
(*   returns), public_data, secret_encoded, decoded_payload (its locals),  *)
(*   dresult (the returned pair), derr (the error raised).                 *)
(***************************************************************************)
VARIABLES qpc, qin, secret_payload, combined_qr_data,
          gpc, temp_qr, qr_image, gerr,
          dpc, dpassword, qr_data, public_data, secret_encoded,
          decoded_payload, dresult, derr

qrVars == <<qpc, qin, secret_payload, combined_qr_data,
            gpc, temp_qr, qr_image, gerr,
            dpc, dpassword, qr_data, public_data, secret_encoded,
            decoded_payload, dresult, derr>>

(***************************************************************************)
(*   src/app.py, the single-file application: concurrent requests each run *)
(*   hide_file_in_image or extract_file_from_image.  fs maps the paths the *)
(*   two functions write to the content of the file there; for request r,  *)
(*   lpc[r] is its position, lin[r] its input, llocal[r] the value its     *)
(*   function has computed, lout[r] what is read back from the path the    *)
(*   function returned.                                                    *)
(***************************************************************************)
VARIABLES fs, lpc, lin, llocal, lout

legacyVars == <<fs, lpc, lin, llocal, lout>>

(***************************************************************************)
(*   cleanup.py: _cleanup_scheduler is the global (0 for None, else the    *)
(*   number of a FileCleanupScheduler object); running and thread hold the *)
(*   fields of the objects made so far (thread 0 for None, else the number *)
(*   of a worker thread); workers holds, per worker thread, its object,    *)
(*   its position in _run_scheduler and the turns left of its sleep loop.  *)
(*   cpc and cself are, per calling thread, its position in                *)
(*   init_cleanup_scheduler / start / stop and the object the call works   *)
(*   on; ncalls counts the calls made.  folder is the upload folder, clock *)
(*   the value of time.time().  sweep holds the locals of a call of        *)
(*   cleanup_old_files that is followed file by file.                      *)
(***************************************************************************)
VARIABLES _cleanup_scheduler, running, thread, workers, cpc, cself, ncalls,
          folder, clock, sweep

cleanVars == <<_cleanup_scheduler, running, thread, workers, cpc, cself, ncalls,
               folder, clock, sweep>>

(***************************************************************************)
(* State of the routes module (routes.py):                                 *)
(*   qr_detection_cache is the module-level dict of line 28, kept as the   *)
(*   dict keeps it: a sequence of entry slots in insertion order, a        *)
(*   deleted entry leaving an empty slot behind.  reqs holds, per request  *)
(*   thread inside detect_qr, its position and its locals; wall is the     *)
(*   value of time.time() in seconds and nreq counts the requests begun.     *)
(*   error_message, is_debug and safe_message are the arguments and the    *)
(*   result of a call of sanitize_error, san_pc the position of the call.  *)
(***************************************************************************)
VARIABLES qr_detection_cache, reqs, wall, nreq,
          error_message, is_debug, safe_message, san_pc

routeVars == <<qr_detection_cache, reqs, wall, nreq,
               error_message, is_debug, safe_message, san_pc>>

vars == <<stegoVars, polyVars, qrVars, legacyVars, cleanVars, routeVars>>

\* What the actions of one component leave alone.
notStego == <<polyVars, qrVars, legacyVars, cleanVars, routeVars>>

notPoly == <<stegoVars, qrVars, legacyVars, cleanVars, routeVars>>

notQr == <<stegoVars, polyVars, legacyVars, cleanVars, routeVars>>

notLegacy == <<stegoVars, polyVars, qrVars, cleanVars, routeVars>>

notClean == <<stegoVars, polyVars, qrVars, legacyVars, routeVars>>

notRoute == <<stegoVars, polyVars, qrVars, legacyVars, cleanVars>>

(***************************************************************************)
(* Inputs of the steganography engine.                                     *)
(***************************************************************************)
SaltLen == 16

\* "a.png", "a|b.png" (a file name may hold '|' = 124) and "n" (no extension).
NamePng == <<97, 46, 112, 110, 103>>

NamePipe == <<97, 124, 98, 46, 112, 110, 103>>

FileNames == {NamePng, NamePipe}

\* File contents of each length up to the bound: a run of one byte, and mixed bytes.
PayloadOf(l, kind) ==
    [i \in 1..l |-> IF kind = "run" THEN 65 ELSE (83 * i + 200) % 256]

Payloads == {PayloadOf(l, kind) : l \in 0..MaxPayloadLen, kind \in {"run", "mix"}}

\* The file at file_path; exists = FALSE when open() raises.
Files ==
    [exists : {TRUE}, name : FileNames, data : Payloads]
    \cup {[exists |-> FALSE, name |-> NamePng, data |-> <<>>]}

\* Carrier images: n RGB pixels; every channel 255, or varying values.
CarrierSizes == {80, 82, 88, 128, 136}

CarrierOf(n, fill) ==
    [i \in 1..n |->
        [c \in 1..3 |-> IF fill = "white" THEN 255 ELSE (7 * i + 3 * c) % 256]]

\* An RGBA carrier: a fourth channel, the transparency, on every pixel.
CarrierRGBA ==
    [i \in 1..128 |-> [c \in 1..4 |-> IF c = 4 THEN 128 ELSE (7 * i + 3 * c) % 256]]

Carriers ==
    {CarrierOf(n, fill) : n \in CarrierSizes, fill \in {"white", "mixed"}}
    \cup {CarrierRGBA}

\* Image.convert("RGB") of an RGB or RGBA image: the first three channels
\* of every pixel; the transparency is dropped.
ConvertRGB(image) == [i \in 1..Len(image) |-> [c \in 1..3 |-> image[i][c]]]

HidePasswords == {None, "", "p"}

\* The capacity scenario: a 100x100 RGB carrier, a file named note.txt of
\* 3,000 or 4,000 bytes.  A content is a run of one byte, or bytes that no
\* block of the compressor shortens.
ScenarioCarriers == {CarrierOf(100 * 100, fill) : fill \in {"white", "mixed"}}

ScenarioName == <<110, 111, 116, 101, 46, 116, 120, 116>>

ScenarioLengths == {3000, 4000}

ScenarioContent(l, first, step) == [i \in 1..l |-> (first + step * i) % 256]

ScenarioContents ==
    {ScenarioContent(l, first, step) :
        l \in ScenarioLengths, first \in {0, 65}, step \in {0, 83}}

ScenarioFiles == [exists : {TRUE}, name : {ScenarioName}, data : ScenarioContents]

ExtractPasswords == {None, "", "p", "q"}

Salts == {[i \in 1..SaltLen |-> 17], [i \in 1..SaltLen |-> 34]}

NoFile == [exists |-> FALSE, pixels |-> <<>>]

NoInput == [image |-> <<>>, file |-> [exists |-> FALSE, name |-> <<>>, data |-> <<>>],
            password |-> None]

NoFrame == [has_password |-> FALSE, salt |-> <<>>, original_filename |-> <<>>,
            mime_type |-> <<>>, compressed_data |-> <<>>]

NoResult == [file_data |-> <<>>, original_filename |-> <<>>, mime_type |-> <<>>]

(***************************************************************************)
(* hide_file_in_image, steganography.py 35-126.                            *)
(***************************************************************************)
EndsWith(s, suffix) ==
    Len(s) >= Len(suffix) /\ SubSeq(s, Len(s) - Len(suffix) + 1, Len(s)) = suffix

\* mimetypes.guess_type and the fallback map: ".png" -> "image/png",
\* ".txt" -> "text/plain", anything else -> "application/octet-stream".
MimeOf(name) ==
    IF EndsWith(name, <<46, 112, 110, 103>>)
    THEN <<105, 109, 97, 103, 101, 47, 112, 110, 103>>
    ELSE IF EndsWith(name, <<46, 116, 120, 116>>)
    THEN <<116, 101, 120, 116, 47, 112, 108, 97, 105, 110>>
    ELSE <<97, 112, 112, 108, 105, 99, 97, 116, 105, 111, 110, 47, 111, 99,
           116, 101, 116, 45, 115, 116, 114, 101, 97, 109>>

\* f"{original_filename}|{mime_type}".encode('utf-8')
Metadata(name, mime) == name \o <<124>> \o mime

\* A frame that carries the salt after the metadata instead of before it.
FrameSaltAfterMetadata(password, slt, metadata, data) ==
    (IF Truthy(password) THEN <<1>> ELSE <<0>>)
    \o ToBytesBE(Len(metadata), 2) \o metadata \o slt
    \o ToBytesBE(Len(data), 4) \o data

\* password_flag + salt + metadata_length + metadata + data_length + compressed_data
Frame(password, slt, metadata, data) ==
    (IF Truthy(password) THEN <<1>> ELSE <<0>>)
    \o slt \o ToBytesBE(Len(metadata), 2) \o metadata
    \o ToBytesBE(Len(data), 4) \o data

\* A check that also refuses the frame that fills the carrier exactly.
CapacityExceededOffByOne(frame_len, total_pixels) ==
    frame_len * 8 >= total_pixels * 3

\* The capacity check of line 103: TRUE when the ValueError is raised.
CapacityExceeded(frame_len, total_pixels) == frame_len * 8 > total_pixels * 3

\* Bit k (0-based, most significant bit of each byte first) of a byte string.
BitAt(data, k) == (data[(k \div 8) + 1] \div Pow(2, 7 - (k % 8))) % 2

\* An embedding loop that takes the bits of each byte lowest first.
EmbedLowBitFirst(pixels, data) ==
    [i \in 1..Len(pixels) |->
        [c \in DOMAIN pixels[i] |->
            LET k == 3 * (i - 1) + (c - 1) IN
            IF c <= 3 /\ k < 8 * Len(data)
            THEN (pixels[i][c] - (pixels[i][c] % 2))
                 + ((data[(k \div 8) + 1] \div Pow(2, k % 8)) % 2)
            ELSE pixels[i][c]]]

\* The embedding loop of lines 107-120: channel c (of the first 3) of pixel
\* i carries bit 3 * i + c while data_index < len(data_to_hide); later
\* channels, and any channel after the third, are kept.
Embed(pixels, data) ==
    [i \in 1..Len(pixels) |->
        [c \in DOMAIN pixels[i] |->
            LET k == 3 * (i - 1) + (c - 1) IN
            IF c <= 3 /\ k < 8 * Len(data)
            THEN (pixels[i][c] - (pixels[i][c] % 2)) + BitAt(data, k)
            ELSE pixels[i][c]]]

HideOpen(image, file, password) ==
    /\ hpc = "Idle"
    /\ hin' = [image |-> image, file |-> file, password |-> password]
    /\ host_pixels' = ConvertRGB(image)
    /\ hpc' = "Opened"
    /\ UNCHANGED <<compressed_data, salt, data_to_hide, out_file, herr>>
    /\ UNCHANGED <<xpc, xpassword, data_bytes, xframe, xresult, xerr, kdf_calls>>
    /\ UNCHANGED notStego

\* Lines 55-58: read the file (open() raises when it cannot) and compress it.
HideCompress ==
    /\ hpc = "Opened"
    /\ IF hin.file.exists
       THEN /\ compressed_data' = zlib_compress(hin.file.data)
            /\ hpc' = "Compressed"
            /\ herr' = herr
       ELSE /\ hpc' = "Failed"
            /\ herr' = "FileNotFoundError"
            /\ compressed_data' = compressed_data
    /\ UNCHANGED <<hin, host_pixels, salt, data_to_hide, out_file>>
    /\ UNCHANGED <<xpc, xpassword, data_bytes, xframe, xresult, xerr, kdf_calls>>
    /\ UNCHANGED notStego

\* An encryption step that encrypts the file as read and compresses the
\* token afterwards.
HideEncryptBeforeCompress ==
    /\ hpc = "Compressed"
    /\ IF Truthy(hin.password)
       THEN \E s \in Salts :
              /\ salt' = s
              /\ compressed_data' =
                   zlib_compress(
                     FernetEncrypt(_derive_key_from_password(hin.password, s),
                                   hin.file.data))
       ELSE /\ salt' = <<>>
            /\ compressed_data' = compressed_data
    /\ hpc' = "Encrypted"
    /\ UNCHANGED <<hin, host_pixels, data_to_hide, out_file, herr>>
    /\ UNCHANGED <<xpc, xpassword, data_bytes, xframe, xresult, xerr, kdf_calls>>
    /\ UNCHANGED notStego

\* Lines 60-66: a fresh random salt and Fernet encryption when a password is given.
HideEncrypt ==
    /\ hpc = "Compressed"
    /\ IF Truthy(hin.password)
       THEN \E s \in Salts :
              /\ salt' = s
              /\ compressed_data' =
                   FernetEncrypt(_derive_key_from_password(hin.password, s),
                                 compressed_data)
       ELSE /\ salt' = <<>>
            /\ compressed_data' = compressed_data
    /\ hpc' = "Encrypted"
    /\ UNCHANGED <<hin, host_pixels, data_to_hide, out_file, herr>>
    /\ UNCHANGED <<xpc, xpassword, data_bytes, xframe, xresult, xerr, kdf_calls>>
    /\ UNCHANGED notStego

\* A serialization whose data_length is the length the data had before the
\* encryption step.
HideSerializeLengthFirst ==
    /\ hpc = "Encrypted"
    /\ LET metadata == Metadata(hin.file.name, MimeOf(hin.file.name))
           compressed == zlib_compress(hin.file.data)
       IN  /\ data_to_hide' =
                 (IF Truthy(hin.password) THEN <<1>> ELSE <<0>>)
                 \o salt \o ToBytesBE(Len(metadata), 2) \o metadata
                 \o ToBytesBE(Len(compressed), 4) \o compressed_data
           /\ hpc' = "FrameSerialized"
           /\ herr' = herr
    /\ UNCHANGED <<hin, host_pixels, compressed_data, salt, out_file>>
    /\ UNCHANGED <<xpc, xpassword, data_bytes, xframe, xresult, xerr, kdf_calls>>
    /\ UNCHANGED notStego

\* Lines 68-100: metadata and the frame; to_bytes raises OverflowError.
HideSerialize ==
    /\ hpc = "Encrypted"
    /\ LET metadata == Metadata(hin.file.name, MimeOf(hin.file.name)) IN
       IF Overflows(Len(metadata), 2) \/ Overflows(Len(compressed_data), 4)
       THEN /\ hpc' = "Failed"
            /\ herr' = "OverflowError"
            /\ data_to_hide' = data_to_hide
       ELSE /\ data_to_hide' = Frame(hin.password, salt, metadata, compressed_data)
            /\ hpc' = "FrameSerialized"
            /\ herr' = herr
    /\ UNCHANGED <<hin, host_pixels, compressed_data, salt, out_file>>
    /\ UNCHANGED <<xpc, xpassword, data_bytes, xframe, xresult, xerr, kdf_calls>>
    /\ UNCHANGED notStego

\* A check that runs only after the embedding loop has written the pixels.
HideCapacityCheckAfterEmbed ==
    /\ hpc = "FrameSerialized"
    /\ IF Len(data_to_hide) * 8 > Len(host_pixels) * 3
       THEN /\ hpc' = "Failed"
            /\ herr' = "InsufficientCapacity"
            /\ host_pixels' =
                 Embed(host_pixels,
                       PySlice(data_to_hide, 0, (Len(host_pixels) * 3) \div 8))
       ELSE /\ hpc' = "CapacityChecked"
            /\ herr' = herr
            /\ host_pixels' = host_pixels
    /\ UNCHANGED <<hin, compressed_data, salt, data_to_hide, out_file>>
    /\ UNCHANGED <<xpc, xpassword, data_bytes, xframe, xresult, xerr, kdf_calls>>
    /\ UNCHANGED notStego

\* Lines 102-104.
HideCapacityCheck ==
    /\ hpc = "FrameSerialized"
    /\ IF CapacityExceeded(Len(data_to_hide), Len(host_pixels))
       THEN /\ hpc' = "Failed"
            /\ herr' = "InsufficientCapacity"
       ELSE /\ hpc' = "CapacityChecked"
            /\ herr' = herr
    /\ UNCHANGED <<hin, host_pixels, compressed_data, salt, data_to_hide, out_file>>
    /\ UNCHANGED <<xpc, xpassword, data_bytes, xframe, xresult, xerr, kdf_calls>>
    /\ UNCHANGED notStego

\* Lines 106-120.
HideEmbed ==
    /\ hpc = "CapacityChecked"
    /\ host_pixels' = Embed(host_pixels, data_to_hide)
    /\ hpc' = "Embedded"
    /\ UNCHANGED <<hin, compressed_data, salt, data_to_hide, out_file, herr>>
    /\ UNCHANGED <<xpc, xpassword, data_bytes, xframe, xresult, xerr, kdf_calls>>
    /\ UNCHANGED notStego

\* Lines 122-126: putdata and save as a lossless PNG.
HideSave ==
    /\ hpc = "Embedded"
    /\ out_file' = [exists |-> TRUE, pixels |-> host_pixels]
    /\ hpc' = "Done"
    /\ UNCHANGED <<hin, host_pixels, compressed_data, salt, data_to_hide, herr>>
    /\ UNCHANGED <<xpc, xpassword, data_bytes, xframe, xresult, xerr, kdf_calls>>
    /\ UNCHANGED notStego

(***************************************************************************)
(* extract_file_from_image, steganography.py 129-207.                      *)
(***************************************************************************)
\* Lines 146-158: the least significant bit of the first 3 channels of each
\* pixel, packed 8 to a byte, first bit highest; a last group of fewer than
\* 8 bits gives the value of those bits.
LsbAt(pixels, k) == pixels[(k \div 3) + 1][(k % 3) + 1] % 2

RECURSIVE PackBits(_, _, _)
PackBits(pixels, k, m) ==
    IF m = 0 THEN 0
    ELSE 2 * PackBits(pixels, k, m - 1) + LsbAt(pixels, k + m - 1)

BytesFromPixels(pixels) ==
    LET nbits == 3 * Len(pixels) IN
    [j \in 1..((nbits + 7) \div 8) |->
        PackBits(pixels, 8 * (j - 1), Min(8, nbits - 8 * (j - 1)))]

\* Lines 168-187: the fields of the frame, read at the offsets the lengths
\* declare; slices past the end are cut short, as Python's are.
\* err is "" or the exception the parse raises.
ParseFrame(bytes) ==
    LET has_password == bytes[1] = 1
        off1 == IF has_password THEN 1 + SaltLen ELSE 1
        slt == IF has_password THEN PySlice(bytes, 1, 1 + SaltLen) ELSE <<>>
        metadata_length == FromBytesBE(PySlice(bytes, off1, off1 + 2))
        off2 == off1 + 2
        metadata == PySlice(bytes, off2, off2 + metadata_length)
        parts == SplitByte(metadata, 124)
        off3 == off2 + metadata_length
        data_length == FromBytesBE(PySlice(bytes, off3, off3 + 4))
        off4 == off3 + 4
    IN  [err |-> IF ~Utf8Valid(metadata) THEN "UnicodeDecodeError"
                 ELSE IF Len(parts) # 2 THEN "ValueError: unpack"
                 ELSE "",
         has_password |-> has_password,
         salt |-> slt,
         original_filename |-> parts[1],
         mime_type |-> IF Len(parts) >= 2 THEN parts[2] ELSE <<>>,
         compressed_data |-> PySlice(bytes, off4, off4 + data_length)]

\* The 0-based offsets at which lines 168-183 read the two length fields.
MetadataLengthPos(bytes) == IF bytes[1] = 1 THEN 1 + SaltLen ELSE 1

DataLengthPos(bytes) ==
    LET off1 == MetadataLengthPos(bytes)
    IN  off1 + 2 + FromBytesBE(PySlice(bytes, off1, off1 + 2))

\* A length no carrier of the model can hold.
HugeLength == 65535

\* An image from elsewhere: the frame of a hide with its data_length field
\* overwritten by HugeLength.
TamperedFrame(frame) ==
    LET pos == DataLengthPos(frame)
    IN  PySlice(frame, 0, pos) \o ToBytesBE(HugeLength, 4) \o PyFrom(frame, pos + 4)

ExtractOpen(pixels, password) ==
    /\ xpc = "Idle"
    /\ xpassword' = password
    /\ data_bytes' = BytesFromPixels(pixels)
    /\ xpc' = "BitsRead"
    /\ UNCHANGED <<xframe, xresult, xerr, kdf_calls>>
    /\ UNCHANGED <<hpc, hin, host_pixels, compressed_data, salt, data_to_hide,
                   out_file, herr>>
    /\ UNCHANGED notStego

\* An extraction without the early check of the password flag.
ExtractCheckFlagSkipped ==
    /\ xpc = "BitsRead"
    /\ xpc' = "PasswordFlagChecked"
    /\ UNCHANGED <<xpassword, data_bytes, xframe, xresult, xerr, kdf_calls>>
    /\ UNCHANGED <<hpc, hin, host_pixels, compressed_data, salt, data_to_hide,
                   out_file, herr>>
    /\ UNCHANGED notStego

\* Lines 161-166.
ExtractCheckFlag ==
    /\ xpc = "BitsRead"
    /\ IF data_bytes[1] = 1 /\ ~Truthy(xpassword)
       THEN /\ xpc' = "Failed"
            /\ xerr' = "PasswordRequired"
       ELSE /\ xpc' = "PasswordFlagChecked"
            /\ xerr' = xerr
    /\ UNCHANGED <<xpassword, data_bytes, xframe, xresult, kdf_calls>>
    /\ UNCHANGED <<hpc, hin, host_pixels, compressed_data, salt, data_to_hide,
                   out_file, herr>>
    /\ UNCHANGED notStego

\* Lines 168-187.
ExtractParse ==
    /\ xpc = "PasswordFlagChecked"
    /\ LET f == ParseFrame(data_bytes) IN
       IF f.err # ""
       THEN /\ xpc' = "Failed"
            /\ xerr' = f.err
            /\ xframe' = xframe
       ELSE /\ xframe' = [has_password |-> f.has_password, salt |-> f.salt,
                          original_filename |-> f.original_filename,
                          mime_type |-> f.mime_type,
                          compressed_data |-> f.compressed_data]
            /\ xpc' = "FrameParsed"
            /\ xerr' = xerr
    /\ UNCHANGED <<xpassword, data_bytes, xresult, kdf_calls>>
    /\ UNCHANGED <<hpc, hin, host_pixels, compressed_data, salt, data_to_hide,
                   out_file, herr>>
    /\ UNCHANGED notStego

\* Lines 189-198: the outcome of the decryption block for a parsed frame:
\* the second password check, then the key derivation and Fernet.decrypt.
DecryptStep(frame, password) ==
    IF ~frame.has_password
    THEN [err |-> "", derived |-> 0, data |-> frame.compressed_data]
    ELSE IF ~Truthy(password)
    THEN [err |-> "PasswordRequired", derived |-> 0, data |-> <<>>]
    ELSE LET plain == FernetDecrypt(_derive_key_from_password(password, frame.salt),
                                    frame.compressed_data)
         IN  IF plain = InvalidToken
             THEN [err |-> "IncorrectPassword", derived |-> 1, data |-> <<>>]
             ELSE [err |-> "", derived |-> 1, data |-> plain]

ExtractDecrypt ==
    /\ xpc = "FrameParsed"
    /\ LET d == DecryptStep(xframe, xpassword) IN
       /\ kdf_calls' = kdf_calls + d.derived
       /\ IF d.err # ""
          THEN /\ xpc' = "Failed"
               /\ xerr' = d.err
               /\ xframe' = xframe
          ELSE /\ xframe' = [xframe EXCEPT !.compressed_data = d.data]
               /\ xpc' = "Decrypted"
               /\ xerr' = xerr
    /\ UNCHANGED <<xpassword, data_bytes, xresult>>
    /\ UNCHANGED <<hpc, hin, host_pixels, compressed_data, salt, data_to_hide,
                   out_file, herr>>
    /\ UNCHANGED notStego

\* Lines 200-207: zlib.error is not a ValueError and is wrapped.
ExtractDecompress ==
    /\ xpc = "Decrypted"
    /\ LET decompressed_data == zlib_decompress(xframe.compressed_data) IN
       IF decompressed_data = ZError
       THEN /\ xpc' = "Failed"
            /\ xerr' = "FailedToExtract"
            /\ xresult' = xresult
       ELSE /\ xresult' = [file_data |-> decompressed_data,
                           original_filename |-> xframe.original_filename,
                           mime_type |-> xframe.mime_type]
            /\ xpc' = "Done"
            /\ xerr' = xerr
    /\ UNCHANGED <<xpassword, data_bytes, xframe, kdf_calls>>
    /\ UNCHANGED <<hpc, hin, host_pixels, compressed_data, salt, data_to_hide,
                   out_file, herr>>
    /\ UNCHANGED notStego

(***************************************************************************)
(* The ZIP format as zipfile writes and reads it (one entry, no comment).  *)
(* CRC-32 is a 4-byte checksum stand-in; the WinZip AES entry of pyzipper  *)
(* is: flag bit 0, method 99, an 11-byte extra field, and a body made of a *)
(* password verifier, the shifted deflate stream and a keyed checksum.     *)
(***************************************************************************)
SigLocal == <<80, 75, 3, 4>>

SigCentral == <<80, 75, 1, 2>>

SigEocd == <<80, 75, 5, 6>>

LocalHeaderSize == 30

CentralHeaderSize == 46

EocdSize == 22

Crc32(data) == (31 * SumSeq(data) + Len(data) + 5) % 65536

AesExtra == <<1, 153, 7, 0, 2, 0, 65, 69, 3, 8, 0>>

\* The key pyzipper derives from the password.
ZipKey(password) == (3 * SumSeq(PwBytes(password)) + 41) % 256

AesVerifier(key) == (5 * key + 1) % 256

AesEncrypt(key, data) ==
    LET ct == [i \in 1..Len(data) |-> (data[i] + key) % 256]
    IN  <<AesVerifier(key)>> \o ct \o <<FernetMac(key, ct)>>

\* An archive member: the name, the content, and the key when AES is used.
\* Fields of the headers that depend on it.
EntryFlags(e) == IF e.aes THEN 1 ELSE 0

EntryMethod(e) == IF e.aes THEN 99 ELSE 8

EntryExtra(e) == IF e.aes THEN AesExtra ELSE <<>>

EntryCrc(e) == IF e.aes THEN 0 ELSE Crc32(e.data)

EntryBody(e) ==
    IF e.aes THEN AesEncrypt(ZipKey(e.password), Deflate(e.data))
    ELSE Deflate(e.data)

HeaderCommon(e) ==
    ToBytesLE(EntryFlags(e), 2) \o ToBytesLE(EntryMethod(e), 2)
    \o ToBytesLE(0, 2) \o ToBytesLE(33, 2)
    \o ToBytesLE(EntryCrc(e), 4) \o ToBytesLE(Len(EntryBody(e)), 4)
    \o ToBytesLE(Len(e.data), 4)

LocalHeader(e) ==
    SigLocal \o ToBytesLE(20, 2) \o HeaderCommon(e)
    \o ToBytesLE(Len(e.name), 2) \o ToBytesLE(Len(EntryExtra(e)), 2)
    \o e.name \o EntryExtra(e)

CentralHeader(e, local_offset) ==
    SigCentral \o ToBytesLE(20, 2) \o ToBytesLE(20, 2) \o HeaderCommon(e)
    \o ToBytesLE(Len(e.name), 2) \o ToBytesLE(Len(EntryExtra(e)), 2)
    \o ToBytesLE(0, 2) \o ToBytesLE(0, 2) \o ToBytesLE(0, 2) \o ToBytesLE(0, 4)
    \o ToBytesLE(local_offset, 4)
    \o e.name \o EntryExtra(e)

Eocd(entries, cd_size, cd_offset) ==
    SigEocd \o ToBytesLE(0, 2) \o ToBytesLE(0, 2)
    \o ToBytesLE(entries, 2) \o ToBytesLE(entries, 2)
    \o ToBytesLE(cd_size, 4) \o ToBytesLE(cd_offset, 4) \o ToBytesLE(0, 2)

\* zf.write(file_to_hide_path, original_filename) and close: the archive.
ZipArchive(e) ==
    LET local == LocalHeader(e) \o EntryBody(e)
        central == CentralHeader(e, 0)
    IN  local \o central \o Eocd(1, Len(central), Len(local))

\* The field of `width` bytes at 0-based position pos, little-endian.
FieldLE(bytes, pos, width) == FromBytesLE(PySlice(bytes, pos, pos + width))

\* f.seek(pos); f.write(value.to_bytes(4, 'little')) on the bytes of a file.
WriteLE4(bytes, pos, value) ==
    [i \in 1..Max(Len(bytes), pos + 4) |->
        IF i > pos /\ i <= pos + 4 THEN ToBytesLE(value, 4)[i - pos]
        ELSE IF i <= Len(bytes) THEN bytes[i] ELSE 0]

(***************************************************************************)
(* zipfile.ZipFile / pyzipper.AESZipFile opened for reading: the end       *)
(* record is found from the end of the file, the central directory is      *)
(* located relative to it (concat is the number of bytes that precede the  *)
(* archive or, when negative, the excess of the recorded offsets), and the *)
(* offset of each member is corrected by concat.                           *)
(***************************************************************************)
RECURSIVE CentralEntries(_, _, _)
\* The 0-based positions of the central directory headers in [pos, stop),
\* or <<-1>> when a header is truncated or has a bad signature.
CentralEntries(bytes, pos, stop) ==
    IF pos >= stop THEN <<>>
    ELSE IF pos + CentralHeaderSize > Len(bytes)
            \/ PySlice(bytes, pos, pos + 4) # SigCentral THEN <<-1>>
    ELSE LET next == pos + CentralHeaderSize + FieldLE(bytes, pos + 28, 2)
                       + FieldLE(bytes, pos + 30, 2) + FieldLE(bytes, pos + 32, 2)
             rest == CentralEntries(bytes, next, stop)
         IN  IF rest = <<-1>> THEN rest ELSE <<pos>> \o rest

\* ZipFile(path, 'r'): err is "" or "BadZipFile"; entries are the positions
\* of the central directory headers; concat corrects the member offsets.
ZipOpen(bytes) ==
    LET bad == [err |-> "BadZipFile", entries |-> <<>>, concat |-> 0]
        eocd_pos == RFind(bytes, SigEocd)
    IN
    IF eocd_pos = -1 \/ eocd_pos + EocdSize > Len(bytes) THEN bad
    ELSE
    LET size_cd == FieldLE(bytes, eocd_pos + 12, 4)
        offset_cd == FieldLE(bytes, eocd_pos + 16, 4)
        concat == eocd_pos - size_cd - offset_cd
        start_dir == offset_cd + concat
    IN
    IF start_dir < 0 THEN bad
    ELSE LET entries == CentralEntries(bytes, start_dir, start_dir + size_cd)
         IN  IF entries = <<-1>> THEN bad
             ELSE [err |-> "", entries |-> entries, concat |-> concat]

\* zf.namelist()[k] and zf.getinfo(name).flag_bits for the header at c.
ZipName(bytes, c) ==
    PySlice(bytes, c + CentralHeaderSize,
            c + CentralHeaderSize + FieldLE(bytes, c + 28, 2))

ZipFlagBits(bytes, c) == FieldLE(bytes, c + 8, 2)

\* zf.read(name, pwd) for the member whose central header is at c:
\* err is "" or the exception; aes_reader is TRUE for pyzipper.AESZipFile.
ZipRead(bytes, c, concat, password, aes_reader) ==
    LET bad(msg) == [err |-> msg, data |-> <<>>]
        method == FieldLE(bytes, c + 10, 2)
        crc == FieldLE(bytes, c + 16, 4)
        csize == FieldLE(bytes, c + 20, 4)
        header_offset == FieldLE(bytes, c + 42, 4) + concat
        lname_len == FieldLE(bytes, header_offset + 26, 2)
        lextra_len == FieldLE(bytes, header_offset + 28, 2)
        lname == PySlice(bytes, header_offset + LocalHeaderSize,
                         header_offset + LocalHeaderSize + lname_len)
        body_pos == header_offset + LocalHeaderSize + lname_len + lextra_len
        body == PySlice(bytes, body_pos, body_pos + csize)
        encrypted == ZipFlagBits(bytes, c) % 2 = 1
    IN
    IF header_offset < 0
       \/ PySlice(bytes, header_offset, header_offset + 4) # SigLocal
       \/ lname # ZipName(bytes, c)
    THEN bad("BadZipFile")
    ELSE IF encrypted /\ ~Truthy(password)
    THEN bad("RuntimeError: password required")
    ELSE IF method = 99 /\ ~aes_reader THEN bad("NotImplementedError")
    ELSE IF encrypted
    THEN LET key == ZipKey(password)
             ct == SubSeq(body, 2, Len(body) - 1)
         IN  IF Len(body) < 2 \/ body[1] # AesVerifier(key)
             THEN bad("RuntimeError: Bad password")
             ELSE IF body[Len(body)] # FernetMac(key, ct) THEN bad("BadZipFile")
             ELSE LET plain == Inflate([i \in 1..Len(ct) |-> (ct[i] - key) % 256])
                  IN  IF plain = ZError THEN bad("BadZipFile")
                      ELSE [err |-> "", data |-> plain]
    ELSE LET plain == Inflate(body)
         IN  IF plain = ZError \/ Crc32(plain) # crc THEN bad("BadZipFile")
             ELSE [err |-> "", data |-> plain]

(***************************************************************************)
(* Inputs of the polyglot composer.                                        *)
(***************************************************************************)
\* Carrier files: empty, "xy", "xPK\x03\x04y" (holds the local-header
\* signature), and one that looks like an end-of-central-directory record.
PolyCarriers ==
    { <<>>,
      <<120, 121>>,
      <<120>> \o SigLocal \o <<121>>,
      SigEocd \o [i \in 1..18 |-> 0] }

NameH == <<104>>

\* The file at file_to_hide_path; exists = FALSE when it cannot be read.
PolyFiles ==
    [exists : {TRUE}, name : {NameH}, data : Payloads]
    \cup {[exists |-> FALSE, name |-> NameH, data |-> <<>>]}

PolyPasswords == {None, "p"}

PolyExtractPasswords == {None, "p", "q"}

\* Files that create_polyglot did not make: "xy", "xy" followed by an
\* archive without members (its 22-byte end record), the same after a
\* carrier that holds PK\x03\x04, and that carrier alone.
PolyForeign ==
    { <<120, 121>>,
      <<120, 121>> \o Eocd(0, 0, 0),
      <<120>> \o SigLocal \o <<121>> \o Eocd(0, 0, 0),
      <<120>> \o SigLocal \o <<121>> }

\* The step of create_polyglot at which the file system raises OSError.
Faults == {"none", "carrier", "write", "patch_eocd", "patch_entry"}

NoBytes == [exists |-> FALSE, bytes |-> <<>>]

NoPolyInput ==
    [carrier |-> <<>>, file |-> [exists |-> FALSE, name |-> <<>>, data |-> <<>>],
     password |-> None, fault |-> "none"]

NoPolyResult == [file_data |-> <<>>, first_file |-> <<>>]

(***************************************************************************)
(* create_polyglot, polyglot.py 14-79, and _fix_zip_offsets, 82-136.       *)
(***************************************************************************)
PolyUnchangedExtract == UNCHANGED <<epc, epassword, edata, etemp, eresult, eerr>>

\* An exception leaves the try block: the finally clause runs next.
Raise(err) ==
    /\ ppc' = "Raising"
    /\ perr' = err

\* The member create_polyglot writes: AES only with a password and pyzipper.
PolyEntry ==
    [name |-> pin.file.name, data |-> pin.file.data,
     aes |-> Truthy(pin.password) /\ HAS_PYZIPPER, password |-> pin.password]

\* Lines 34-39: the temporary archive file is created.
CreateStart(carrier, file, password, fault) ==
    /\ ppc = "Idle"
    /\ pin' = [carrier |-> carrier, file |-> file, password |-> password,
               fault |-> fault]
    /\ temp_zip' = [exists |-> TRUE, bytes |-> <<>>]
    /\ ppc' = "TempCreated"
    /\ UNCHANGED <<HAS_PYZIPPER, output, cd_pos, perr>>
    /\ PolyUnchangedExtract
    /\ UNCHANGED notPoly

\* Lines 42-45.
CreateReadCarrier ==
    /\ ppc = "TempCreated"
    /\ IF pin.fault = "carrier"
       THEN Raise("OSError")
       ELSE ppc' = "CarrierRead" /\ perr' = perr
    /\ UNCHANGED <<HAS_PYZIPPER, pin, temp_zip, output, cd_pos>>
    /\ PolyUnchangedExtract
    /\ UNCHANGED notPoly

\* Lines 47-61: zf.write raises when the file to hide cannot be read.
CreateBuildZip ==
    /\ ppc = "CarrierRead"
    /\ IF ~pin.file.exists
       THEN Raise("OSError") /\ temp_zip' = temp_zip
       ELSE /\ temp_zip' = [exists |-> TRUE, bytes |-> ZipArchive(PolyEntry)]
            /\ ppc' = "ZipBuilt"
            /\ perr' = perr
    /\ UNCHANGED <<HAS_PYZIPPER, pin, output, cd_pos>>
    /\ PolyUnchangedExtract
    /\ UNCHANGED notPoly

\* An output that holds the archive first and the carrier after it.
CreateWriteOutputArchiveFirst ==
    /\ ppc = "ZipBuilt"
    /\ output' = [exists |-> TRUE, bytes |-> temp_zip.bytes \o pin.carrier]
    /\ ppc' = "OutputWritten"
    /\ perr' = perr
    /\ UNCHANGED <<HAS_PYZIPPER, pin, temp_zip, cd_pos>>
    /\ PolyUnchangedExtract
    /\ UNCHANGED notPoly

\* Lines 63-68: open(output_path, 'wb') creates the file; a write that
\* raises leaves what was written before it.
CreateWriteOutput ==
    /\ ppc = "ZipBuilt"
    /\ IF pin.fault = "write"
       THEN /\ output' = [exists |-> TRUE, bytes |-> pin.carrier]
            /\ Raise("OSError")
       ELSE /\ output' = [exists |-> TRUE, bytes |-> pin.carrier \o temp_zip.bytes]
            /\ ppc' = "OutputWritten"
            /\ perr' = perr
    /\ UNCHANGED <<HAS_PYZIPPER, pin, temp_zip, cd_pos>>
    /\ PolyUnchangedExtract
    /\ UNCHANGED notPoly

\* Variant of FixEocd that walks the directory but leaves the end record's
\* offset field as the standalone archive wrote it.
FixEocdUnpatched ==
    /\ ppc = "OutputWritten"
    /\ LET offset == Len(pin.carrier)
           eocd_pos == RFind(output.bytes, SigEocd)
           new_cd_offset == FieldLE(output.bytes, eocd_pos + 16, 4) + offset
       IN  IF eocd_pos = -1
           THEN /\ ppc' = "Patched"
                /\ UNCHANGED <<output, cd_pos, perr>>
           ELSE /\ cd_pos' = new_cd_offset
                /\ ppc' = "EocdPatched"
                /\ UNCHANGED <<output, perr>>
    /\ UNCHANGED <<HAS_PYZIPPER, pin, temp_zip>>
    /\ PolyUnchangedExtract
    /\ UNCHANGED notPoly

\* Lines 87-110: find the end record from the end, add `offset` to its
\* central-directory offset field and write it back.
FixEocd ==
    /\ ppc = "OutputWritten"
    /\ LET offset == Len(pin.carrier)
           eocd_pos == RFind(output.bytes, SigEocd)
           cd_offset_pos == eocd_pos + 16
           new_cd_offset == FieldLE(output.bytes, cd_offset_pos, 4) + offset
       IN  IF eocd_pos = -1
           THEN /\ ppc' = "Patched"
                /\ UNCHANGED <<output, cd_pos, perr>>
           ELSE IF Overflows(new_cd_offset, 4)
           THEN Raise("OverflowError") /\ UNCHANGED <<output, cd_pos>>
           ELSE IF pin.fault = "patch_eocd"
           THEN Raise("OSError") /\ UNCHANGED <<output, cd_pos>>
           ELSE /\ output' = [output EXCEPT
                                !.bytes = WriteLE4(@, cd_offset_pos, new_cd_offset)]
                /\ cd_pos' = new_cd_offset
                /\ ppc' = "EocdPatched"
                /\ perr' = perr
    /\ UNCHANGED <<HAS_PYZIPPER, pin, temp_zip>>
    /\ PolyUnchangedExtract
    /\ UNCHANGED notPoly

\* Variant of FixEntry that adds the carrier length to the local-header
\* offset twice.
FixEntryTwice ==
    /\ ppc = "EocdPatched"
    /\ LET offset == Len(pin.carrier)
           sig == PySlice(output.bytes, cd_pos, cd_pos + 4)
           new_local_offset == FieldLE(output.bytes, cd_pos + 42, 4) + offset + offset
       IN  IF sig # SigCentral
           THEN /\ ppc' = "Patched"
                /\ UNCHANGED <<output, cd_pos, perr>>
           ELSE LET patched == WriteLE4(output.bytes, cd_pos + 42, new_local_offset)
                IN  /\ output' = [output EXCEPT !.bytes = patched]
                    /\ cd_pos' = cd_pos + CentralHeaderSize
                                   + FieldLE(patched, cd_pos + 28, 2)
                                   + FieldLE(patched, cd_pos + 30, 2)
                                   + FieldLE(patched, cd_pos + 32, 2)
                    /\ UNCHANGED <<ppc, perr>>
    /\ UNCHANGED <<HAS_PYZIPPER, pin, temp_zip>>
    /\ PolyUnchangedExtract
    /\ UNCHANGED notPoly

\* A walk that advances by the fixed header size only.
FixEntryFixedStep ==
    /\ ppc = "EocdPatched"
    /\ LET offset == Len(pin.carrier)
           sig == PySlice(output.bytes, cd_pos, cd_pos + 4)
           new_local_offset == FieldLE(output.bytes, cd_pos + 42, 4) + offset
       IN  IF sig # SigCentral
           THEN /\ ppc' = "Patched"
                /\ UNCHANGED <<output, cd_pos, perr>>
           ELSE /\ output' = [output EXCEPT
                                !.bytes = WriteLE4(@, cd_pos + 42, new_local_offset)]
                /\ cd_pos' = cd_pos + CentralHeaderSize
                /\ UNCHANGED <<ppc, perr>>
    /\ UNCHANGED <<HAS_PYZIPPER, pin, temp_zip>>
    /\ PolyUnchangedExtract
    /\ UNCHANGED notPoly

\* Lines 112-136: one turn of the walk over the central directory.
FixEntry ==
    /\ ppc = "EocdPatched"
    /\ LET offset == Len(pin.carrier)
           sig == PySlice(output.bytes, cd_pos, cd_pos + 4)
           new_local_offset == FieldLE(output.bytes, cd_pos + 42, 4) + offset
       IN  IF sig # SigCentral
           THEN /\ ppc' = "Patched"
                /\ UNCHANGED <<output, cd_pos, perr>>
           ELSE IF Overflows(new_local_offset, 4)
           THEN Raise("OverflowError") /\ UNCHANGED <<output, cd_pos>>
           ELSE IF pin.fault = "patch_entry"
           THEN Raise("OSError") /\ UNCHANGED <<output, cd_pos>>
           ELSE LET patched == WriteLE4(output.bytes, cd_pos + 42, new_local_offset)
                IN  /\ output' = [output EXCEPT !.bytes = patched]
                    /\ cd_pos' = cd_pos + CentralHeaderSize
                                   + FieldLE(patched, cd_pos + 28, 2)
                                   + FieldLE(patched, cd_pos + 30, 2)
                                   + FieldLE(patched, cd_pos + 32, 2)
                    /\ UNCHANGED <<ppc, perr>>
    /\ UNCHANGED <<HAS_PYZIPPER, pin, temp_zip>>
    /\ PolyUnchangedExtract
    /\ UNCHANGED notPoly

\* Lines 74-79: return or propagate; the finally clause removes the
\* temporary archive and nothing else.
CreateFinally ==
    /\ ppc \in {"Patched", "Raising"}
    /\ temp_zip' = NoBytes
    /\ ppc' = IF ppc = "Patched" THEN "Done" ELSE "Failed"
    /\ UNCHANGED <<HAS_PYZIPPER, pin, output, cd_pos, perr>>
    /\ PolyUnchangedExtract
    /\ UNCHANGED notPoly

(***************************************************************************)
(* extract_from_polyglot, polyglot.py 139-222.  Every exception leaves as  *)
(* ValueError("Failed to extract from polyglot: ..."); eerr keeps the      *)
(* message that follows the prefix.                                        *)
(***************************************************************************)
PolyUnchangedCreate ==
    UNCHANGED <<HAS_PYZIPPER, ppc, pin, temp_zip, output, cd_pos, perr>>

\* Lines 176-214 on the bytes of the temporary archive.
PolyRead(zip_data, password) ==
    LET fail(msg) == [err |-> msg, file_data |-> <<>>, first_file |-> <<>>]
        z == ZipOpen(zip_data)
    IN
    IF z.err # "" THEN fail(z.err)
    ELSE IF z.entries = <<>> THEN fail("EmptyArchive")
    ELSE
    LET c == z.entries[1]
        first_file == ZipName(zip_data, c)
    IN
    IF HAS_PYZIPPER /\ Truthy(password)
    THEN LET r == ZipRead(zip_data, c, z.concat, password, TRUE) IN
         IF r.err = "RuntimeError: Bad password" THEN fail("IncorrectPassword")
         ELSE IF r.err # "" THEN fail(r.err)
         ELSE [err |-> "", file_data |-> r.data, first_file |-> first_file]
    ELSE IF ZipFlagBits(zip_data, c) % 2 = 1
    THEN IF ~Truthy(password) THEN fail("PasswordRequired")
         ELSE LET r == ZipRead(zip_data, c, z.concat, password, FALSE) IN
              IF r.err \in {"RuntimeError: Bad password", "NotImplementedError",
                            "RuntimeError: password required"}
              THEN fail("IncorrectPassword")
              ELSE IF r.err # "" THEN fail(r.err)
              ELSE [err |-> "", file_data |-> r.data, first_file |-> first_file]
    ELSE LET r == ZipRead(zip_data, c, z.concat, None, FALSE) IN
         IF r.err # "" THEN fail(r.err)
         ELSE [err |-> "", file_data |-> r.data, first_file |-> first_file]

\* Lines 153-174: find the first local-header signature and copy the rest
\* of the file to a temporary archive.
PolyExtractOpen(data, password) ==
    /\ epc = "Idle"
    /\ epassword' = password
    /\ edata' = data
    /\ LET zip_start == Find(data, SigLocal) IN
       IF zip_start = -1
       THEN /\ epc' = "Failed"
            /\ eerr' = "NoHiddenFile"
            /\ etemp' = etemp
       ELSE /\ etemp' = [exists |-> TRUE, bytes |-> PyFrom(data, zip_start)]
            /\ epc' = "TempWritten"
            /\ eerr' = eerr
    /\ UNCHANGED eresult
    /\ PolyUnchangedCreate
    /\ UNCHANGED notPoly

\* Lines 176-214: the result or the exception of reading the archive.
PolyExtractRead ==
    /\ epc = "TempWritten"
    /\ LET r == PolyRead(etemp.bytes, epassword) IN
       /\ eerr' = r.err
       /\ eresult' = [file_data |-> r.file_data, first_file |-> r.first_file]
    /\ epc' = "Read"
    /\ UNCHANGED <<epassword, edata, etemp>>
    /\ PolyUnchangedCreate
    /\ UNCHANGED notPoly

\* Lines 216-222: the finally clause removes the temporary archive.
PolyExtractFinally ==
    /\ epc = "Read"
    /\ etemp' = NoBytes
    /\ epc' = IF eerr = "" THEN "Done" ELSE "Failed"
    /\ UNCHANGED <<epassword, edata, eresult, eerr>>
    /\ PolyUnchangedCreate
    /\ UNCHANGED notPoly

PolyIdle ==
    /\ ppc = "Idle"
    /\ pin = NoPolyInput
    /\ temp_zip = NoBytes
    /\ output = NoBytes
    /\ cd_pos = 0
    /\ perr = ""
    /\ epc = "Idle"
    /\ epassword = None
    /\ edata = <<>>
    /\ etemp = NoBytes
    /\ eresult = NoPolyResult
    /\ eerr = ""

(***************************************************************************)
(* The steganography engine: one hide, then one extract of the image it    *)
(* wrote (or an extract of an image no hide has touched).                  *)
(***************************************************************************)
(***************************************************************************)
(* Text and base64.  A str is the sequence of its code points.             *)
(***************************************************************************)
\* str.encode('utf-8').
RECURSIVE Utf8Encode(_)
Utf8Encode(text) ==
    IF text = <<>> THEN <<>>
    ELSE LET c == text[1] IN
         (IF c < 128 THEN <<c>>
          ELSE IF c < 2048 THEN <<192 + (c \div 64), 128 + (c % 64)>>
          ELSE <<224 + (c \div 4096), 128 + ((c \div 64) % 64), 128 + (c % 64)>>)
         \o Utf8Encode(Tail(text))

\* bytes.decode('utf-8') of well-formed UTF-8 of up to three bytes a character.
RECURSIVE Utf8Decode(_)
Utf8Decode(bytes) ==
    IF bytes = <<>> THEN <<>>
    ELSE LET b == bytes[1] IN
         IF b < 128 THEN <<b>> \o Utf8Decode(Tail(bytes))
         ELSE IF b < 224
              THEN <<(b - 192) * 64 + (bytes[2] - 128)>>
                   \o Utf8Decode(SubSeq(bytes, 3, Len(bytes)))
         ELSE <<(b - 224) * 4096 + (bytes[2] - 128) * 64 + (bytes[3] - 128)>>
              \o Utf8Decode(SubSeq(bytes, 4, Len(bytes)))

\* The base64 alphabet: A-Z, a-z, 0-9, '+', '/'; '=' pads.
B64Char(v) ==
    IF v < 26 THEN 65 + v
    ELSE IF v < 52 THEN 97 + (v - 26)
    ELSE IF v < 62 THEN 48 + (v - 52)
    ELSE IF v = 62 THEN 43 ELSE 47

B64Value(c) ==
    IF c >= 65 /\ c <= 90 THEN c - 65
    ELSE IF c >= 97 /\ c <= 122 THEN c - 97 + 26
    ELSE IF c >= 48 /\ c <= 57 THEN c - 48 + 52
    ELSE IF c = 43 THEN 62
    ELSE IF c = 47 THEN 63
    ELSE -1

B64Pad == 61

\* base64.b64encode(bytes).decode('ascii').
RECURSIVE b64encode(_)
b64encode(bytes) ==
    IF bytes = <<>> THEN <<>>
    ELSE IF Len(bytes) = 1
    THEN <<B64Char(bytes[1] \div 4), B64Char((bytes[1] % 4) * 16), B64Pad, B64Pad>>
    ELSE IF Len(bytes) = 2
    THEN <<B64Char(bytes[1] \div 4),
           B64Char((bytes[1] % 4) * 16 + (bytes[2] \div 16)),
           B64Char((bytes[2] % 16) * 4), B64Pad>>
    ELSE <<B64Char(bytes[1] \div 4),
           B64Char((bytes[1] % 4) * 16 + (bytes[2] \div 16)),
           B64Char((bytes[2] % 16) * 4 + (bytes[3] \div 64)),
           B64Char(bytes[3] % 64)>>
         \o b64encode(SubSeq(bytes, 4, Len(bytes)))

\* binascii.a2b_base64 without strict mode: characters outside the alphabet
\* are skipped; a pad character that completes a quad of two or three data
\* characters ends the input; leftover characters of a quad at the end
\* raise binascii.Error.
IsB64Char(c) == B64Value(c) # -1

\* quad_pos when the character at i is read.
QuadPos(s, i) == Cardinality({j \in 1..(i - 1) : IsB64Char(s[j])}) % 4

\* The pad characters read since the last data character before i.
PadsBefore(s, i) ==
    Cardinality({j \in 1..(i - 1) :
                    s[j] = B64Pad /\ \A k \in (j + 1)..(i - 1) : ~IsB64Char(s[k])})

\* The index of the pad character at which decoding stops, 0 if none.
A2bStop(s) ==
    LET stops == {i \in 1..Len(s) :
                     /\ s[i] = B64Pad
                     /\ QuadPos(s, i) >= 2
                     /\ QuadPos(s, i) + PadsBefore(s, i) + 1 >= 4}
    IN  IF stops = {} THEN 0 ELSE CHOOSE i \in stops : \A j \in stops : i <= j

A2bBase64(s) ==
    LET stop == A2bStop(s)
        used == IF stop = 0 THEN s ELSE SubSeq(s, 1, stop - 1)
        d == SelectSeq(used, IsB64Char)
        n == Len(d)
        nbytes == (n \div 4) * 3 + (IF n % 4 = 0 THEN 0 ELSE (n % 4) - 1)
    IN  IF stop = 0 /\ n % 4 # 0
        THEN [err |-> "binascii.Error", bytes |-> <<>>]
        ELSE [err |-> "",
              bytes |-> [k \in 1..nbytes |->
                 LET g == (k - 1) \div 3
                     r == (k - 1) % 3
                     a == B64Value(d[4 * g + r + 1])
                     b == B64Value(d[4 * g + r + 2])
                 IN  IF r = 0 THEN a * 4 + (b \div 16)
                     ELSE IF r = 1 THEN (a % 16) * 16 + (b \div 4)
                     ELSE (a % 4) * 64 + b]]

\* base64.b64decode(str): the str must be ASCII (ValueError otherwise).
b64decode(s) ==
    IF \E i \in 1..Len(s) : s[i] >= 128
    THEN [err |-> "ValueError", bytes |-> <<>>]
    ELSE A2bBase64(s)

\* str.split(sep) without maxsplit: the list of all parts.
RECURSIVE SplitSeq(_, _)
SplitSeq(s, sep) ==
    LET i == Find(s, sep) IN
    IF i = -1 THEN <<s>>
    ELSE <<PySlice(s, 0, i)>> \o SplitSeq(PyFrom(s, i + Len(sep)), sep)

(***************************************************************************)
(* PBKDF2-HMAC-SHA256 and AES-CBC stand-ins: the key is one byte that      *)
(* depends on the password and the salt; a block is enciphered by adding   *)
(* the key and the previous cipher block (the iv for the first).  A wrong  *)
(* key deciphers to other bytes; a length that is no multiple of the       *)
(* block raises ValueError, as decryptor.finalize() does.                  *)
(***************************************************************************)
BlockLen == 16

Pbkdf2(password, s) == (7 * SumSeq(PwBytes(password)) + SumSeq(s) + 1) % 256

RECURSIVE CbcEncrypt(_, _, _)
CbcEncrypt(key, prev, plain) ==
    IF plain = <<>> THEN <<>>
    ELSE LET block == [i \in 1..BlockLen |-> (plain[i] + key + prev[i]) % 256]
         IN  block \o CbcEncrypt(key, block, SubSeq(plain, BlockLen + 1, Len(plain)))

RECURSIVE CbcDecrypt(_, _, _)
CbcDecrypt(key, prev, cipher) ==
    IF cipher = <<>> THEN <<>>
    ELSE LET block == SubSeq(cipher, 1, BlockLen)
         IN  [i \in 1..BlockLen |-> (block[i] + 512 - key - prev[i]) % 256]
             \o CbcDecrypt(key, block, SubSeq(cipher, BlockLen + 1, Len(cipher)))

(***************************************************************************)
(* Inputs of the QR codec.                                                 *)
(***************************************************************************)
\* '#IVDATA:'
Marker == <<35, 73, 86, 68, 65, 84, 65, 58>>

\* Length of salt + iv, the threshold of lines 242 and 272.
SaltIvLen == 32

TextU == <<117>>

\* "u" and "u#IVDATA:dg==" (a public text that holds the marker).
QrPublics == {TextU, TextU \o Marker \o <<100, 103, 61, 61>>}

\* "", "s", "e-acute" (two bytes in UTF-8), and 31 and 32 times "a".
QrSecrets ==
    { <<>>, <<115>>, <<233>>,
      [i \in 1..(SaltIvLen - 1) |-> 97], [i \in 1..SaltIvLen |-> 97] }

QrPasswords == {None, "", "p"}

QrDecodePasswords == {None, "", "p", "q"}

QrIvs == {[i \in 1..BlockLen |-> i]}

\* Texts of QR codes that generate_qr_with_stego did not make: no marker,
\* an empty fragment, the byte FF, one base64 character, a non-ASCII
\* fragment, and 32 zero bytes.
ForeignQr ==
    { TextU,
      TextU \o Marker,
      TextU \o Marker \o <<47, 119, 61, 61>>,
      TextU \o Marker \o <<81>>,
      TextU \o Marker \o <<233>>,
      TextU \o Marker \o b64encode([i \in 1..SaltIvLen |-> 0]) }

NoQrInput ==
    [public_data |-> <<>>, secret_text |-> <<>>, password |-> None,
     salt |-> <<>>, iv |-> <<>>]

NoQrResult == [public_data |-> <<>>, secret_text |-> <<>>, returned |-> FALSE]

(***************************************************************************)
(* generate_qr_with_stego, qr_stego.py 13-139: the text put in the symbol. *)
(***************************************************************************)
QrUnchangedDecode ==
    UNCHANGED <<dpc, dpassword, qr_data, public_data, secret_encoded,
                decoded_payload, dresult, derr>>

QrUnchangedFile == UNCHANGED <<gpc, temp_qr, qr_image, gerr>>

QrEncodeStart(public, secret, password, s, iv) ==
    /\ qpc = "Idle"
    /\ qin' = [public_data |-> public, secret_text |-> secret,
               password |-> password, salt |-> s, iv |-> iv]
    /\ qpc' = "Started"
    /\ UNCHANGED <<secret_payload, combined_qr_data>>
    /\ QrUnchangedFile
    /\ QrUnchangedDecode
    /\ UNCHANGED notQr

\* A padding that adds nothing to a secret whose length is a multiple of the
\* block size.
QrBuildPayloadNoFullBlock ==
    /\ qpc = "Started"
    /\ secret_payload' =
          IF Truthy(qin.password)
          THEN LET key == Pbkdf2(qin.password, qin.salt)
                   secret_bytes == Utf8Encode(qin.secret_text)
                   padding_length ==
                       (BlockLen - (Len(secret_bytes) % BlockLen)) % BlockLen
                   padded_secret == secret_bytes
                                      \o [i \in 1..padding_length |-> padding_length]
               IN  qin.salt \o qin.iv \o CbcEncrypt(key, qin.iv, padded_secret)
          ELSE Utf8Encode(qin.secret_text)
    /\ qpc' = "PayloadBuilt"
    /\ UNCHANGED <<qin, combined_qr_data>>
    /\ QrUnchangedFile
    /\ QrUnchangedDecode
    /\ UNCHANGED notQr

\* Lines 58-90.
QrBuildPayload ==
    /\ qpc = "Started"
    /\ secret_payload' =
          IF Truthy(qin.password)
          THEN LET key == Pbkdf2(qin.password, qin.salt)
                   secret_bytes == Utf8Encode(qin.secret_text)
                   padding_length == BlockLen - (Len(secret_bytes) % BlockLen)
                   padded_secret == secret_bytes
                                      \o [i \in 1..padding_length |-> padding_length]
               IN  qin.salt \o qin.iv \o CbcEncrypt(key, qin.iv, padded_secret)
          ELSE Utf8Encode(qin.secret_text)
    /\ qpc' = "PayloadBuilt"
    /\ UNCHANGED <<qin, combined_qr_data>>
    /\ QrUnchangedFile
    /\ QrUnchangedDecode
    /\ UNCHANGED notQr

\* Lines 92-99.
QrCombine ==
    /\ qpc = "PayloadBuilt"
    /\ combined_qr_data' = qin.public_data \o Marker \o b64encode(secret_payload)
    /\ qpc' = "Done"
    /\ UNCHANGED <<qin, secret_payload>>
    /\ QrUnchangedFile
    /\ QrUnchangedDecode
    /\ UNCHANGED notQr

(***************************************************************************)
(* generate_qr_with_stego, qr_stego.py 102-139: the symbol is drawn into a *)
(* temporary file, a logo is pasted on it and the result is written to     *)
(* output_path.  temp_qr tells whether the temporary file exists, qr_image *)
(* is the file at output_path with the text of its symbol.  Every          *)
(* exception leaves through the except of line 135 as ValueError.          *)
(***************************************************************************)
SymbolCapacity == 1273

Logos == {None, "logo.png", "broken.png"}

NoQrImage == [exists |-> FALSE, text |-> <<>>]

QrUnchangedText == UNCHANGED <<qpc, qin, secret_payload, combined_qr_data>>

\* except Exception as e: raise ValueError(...) (135-139)
QrFail ==
    /\ gpc' = "Failed"
    /\ gerr' = "Failed to generate QR code"

\* Line 103: segno.make refuses a text no symbol can hold.
QrMake ==
    /\ qpc = "Done"
    /\ gpc = "Idle"
    /\ IF Len(combined_qr_data) > SymbolCapacity
       THEN QrFail
       ELSE gpc' = "Made" /\ gerr' = gerr
    /\ UNCHANGED <<temp_qr, qr_image>>
    /\ QrUnchangedText
    /\ QrUnchangedDecode
    /\ UNCHANGED notQr

\* Lines 105-107: NamedTemporaryFile(suffix='.png', delete=False).
QrTempCreate ==
    /\ gpc = "Made"
    /\ \/ gpc' = "TempCreated" /\ temp_qr' = TRUE /\ gerr' = gerr
       \/ QrFail /\ temp_qr' = temp_qr
    /\ UNCHANGED qr_image
    /\ QrUnchangedText
    /\ QrUnchangedDecode
    /\ UNCHANGED notQr

\* Lines 109-117: qr.save draws the symbol, or raises (a colour it cannot
\* parse, a full disk).
QrSaveTemp ==
    /\ gpc = "TempCreated"
    /\ \/ gpc' = "Saved" /\ gerr' = gerr
       \/ QrFail
    /\ UNCHANGED <<temp_qr, qr_image>>
    /\ QrUnchangedText
    /\ QrUnchangedDecode
    /\ UNCHANGED notQr

\* Lines 119-122 and _embed_logo_in_qr (142-182): the logo is pasted on
\* the temporary file in place; a logo that is no image raises.
QrLogo(logo_path) ==
    /\ gpc = "Saved"
    /\ IF logo_path = "broken.png"
       THEN QrFail
       ELSE gpc' = "LogoDone" /\ gerr' = gerr
    /\ UNCHANGED <<temp_qr, qr_image>>
    /\ QrUnchangedText
    /\ QrUnchangedDecode
    /\ UNCHANGED notQr

\* Lines 124-127: the temporary file is converted and written to
\* output_path, or the write raises.
QrWriteOutput ==
    /\ gpc = "LogoDone"
    /\ \/ /\ gpc' = "Written"
          /\ qr_image' = [exists |-> TRUE, text |-> combined_qr_data]
          /\ gerr' = gerr
       \/ QrFail /\ qr_image' = qr_image
    /\ UNCHANGED temp_qr
    /\ QrUnchangedText
    /\ QrUnchangedDecode
    /\ UNCHANGED notQr

\* Lines 129-133: the temporary file is removed and output_path returned.
QrCleanup ==
    /\ gpc = "Written"
    /\ temp_qr' = FALSE
    /\ gpc' = "Returned"
    /\ UNCHANGED <<qr_image, gerr>>
    /\ QrUnchangedText
    /\ QrUnchangedDecode
    /\ UNCHANGED notQr

(***************************************************************************)
(* extract_from_qr_stego, qr_stego.py 185-305.                             *)
(***************************************************************************)
QrUnchangedEncode ==
    UNCHANGED <<qpc, qin, secret_payload, combined_qr_data,
                gpc, temp_qr, qr_image, gerr>>

QrReturn(public, secret) ==
    /\ dresult' = [public_data |-> public, secret_text |-> secret, returned |-> TRUE]
    /\ dpc' = "Done"
    /\ derr' = derr

QrRaise(err) ==
    /\ dpc' = "Failed"
    /\ derr' = err
    /\ dresult' = dresult

\* Lines 217-225: the text of the first symbol found.
QrDecodeOpen(text, password) ==
    /\ dpc = "Idle"
    /\ qr_data' = text
    /\ dpassword' = password
    /\ dpc' = "Scanned"
    /\ UNCHANGED <<public_data, secret_encoded, decoded_payload, dresult, derr>>
    /\ QrUnchangedEncode
    /\ UNCHANGED notQr

\* Lines 228-235 and 288-297.
QrSplit ==
    /\ dpc = "Scanned"
    /\ IF Find(qr_data, Marker) # -1
       THEN LET parts == SplitSeq(qr_data, Marker) IN
            /\ public_data' = parts[1]
            /\ secret_encoded' = IF Len(parts) > 1 THEN parts[2] ELSE <<>>
            /\ IF secret_encoded' # <<>>
               THEN dpc' = "Split" /\ UNCHANGED <<dresult, derr>>
               ELSE QrReturn(parts[1], <<>>)
       ELSE /\ public_data' = qr_data
            /\ secret_encoded' = secret_encoded
            /\ QrReturn(qr_data, <<>>)
    /\ UNCHANGED <<dpassword, qr_data, decoded_payload>>
    /\ QrUnchangedEncode
    /\ UNCHANGED notQr

\* Lines 237 and 280-287: binascii.Error gives "Failed to decode hidden
\* data", the ValueError of a non-ASCII str "Failed to decrypt hidden data".
QrBase64Decode ==
    /\ dpc = "Split"
    /\ LET d == b64decode(secret_encoded) IN
       IF d.err = "binascii.Error"
       THEN QrRaise("FailedToDecode") /\ decoded_payload' = decoded_payload
       ELSE IF d.err = "ValueError"
       THEN QrRaise("FailedToDecrypt") /\ decoded_payload' = decoded_payload
       ELSE /\ decoded_payload' = d.bytes
            /\ dpc' = "Decoded"
            /\ UNCHANGED <<dresult, derr>>
    /\ UNCHANGED <<dpassword, qr_data, public_data, secret_encoded>>
    /\ QrUnchangedEncode
    /\ UNCHANGED notQr

\* Lines 266-268: the last byte is taken as the padding length.
RemovePadding(decrypted_padded) ==
    LET padding_length == decrypted_padded[Len(decrypted_padded)]
    IN  IF padding_length = 0 THEN <<>>
        ELSE PySlice(decrypted_padded, 0,
                     Max(0, Len(decrypted_padded) - padding_length))

\* Lines 240-268 and 283-287, with a password.  An error whose message
\* lacks "password" leaves as "Failed to decrypt hidden data"; IndexError
\* of an empty plaintext leaves through the outer handler of 299-305.
QrDecrypt ==
    IF Len(decoded_payload) < SaltIvLen THEN QrRaise("FailedToDecrypt")
    ELSE LET s == PySlice(decoded_payload, 0, 16)
             iv == PySlice(decoded_payload, 16, 32)
             encrypted_data == PyFrom(decoded_payload, 32)
             key == Pbkdf2(dpassword, s)
         IN  IF Len(encrypted_data) % BlockLen # 0 THEN QrRaise("FailedToDecrypt")
             ELSE IF encrypted_data = <<>> THEN QrRaise("FailedToExtract")
             ELSE LET unpadded == RemovePadding(CbcDecrypt(key, iv, encrypted_data))
                  IN  IF Utf8Valid(unpadded)
                      THEN QrReturn(public_data, Utf8Decode(unpadded))
                      ELSE QrRaise("FailedToDecrypt")

\* Variant of QrPlain whose threshold is one byte too high.
QrPlainAboveThreshold ==
    IF Len(decoded_payload) > SaltIvLen THEN QrRaise("PasswordRequired")
    ELSE IF Utf8Valid(decoded_payload)
    THEN QrReturn(public_data, Utf8Decode(decoded_payload))
    ELSE QrRaise("FailedToDecrypt")

\* Lines 270-277 and 283-287, without a password.
QrPlain ==
    IF Len(decoded_payload) >= SaltIvLen THEN QrRaise("PasswordRequired")
    ELSE IF Utf8Valid(decoded_payload)
    THEN QrReturn(public_data, Utf8Decode(decoded_payload))
    ELSE QrRaise("FailedToDecrypt")

\* Lines 240-287.
QrReadSecret ==
    /\ dpc = "Decoded"
    /\ IF Truthy(dpassword) THEN QrDecrypt ELSE QrPlain
    /\ UNCHANGED <<dpassword, qr_data, public_data, secret_encoded, decoded_payload>>
    /\ QrUnchangedEncode
    /\ UNCHANGED notQr

QrIdle ==
    /\ qpc = "Idle"
    /\ qin = NoQrInput
    /\ secret_payload = <<>>
    /\ combined_qr_data = <<>>
    /\ gpc = "Idle"
    /\ temp_qr = FALSE
    /\ qr_image = NoQrImage
    /\ gerr = ""
    /\ dpc = "Idle"
    /\ dpassword = None
    /\ qr_data = <<>>
    /\ public_data = <<>>
    /\ secret_encoded = <<>>
    /\ decoded_payload = <<>>
    /\ dresult = NoQrResult
    /\ derr = ""

(***************************************************************************)
(* src/app.py: hide_file_in_image (35-88) and extract_file_from_image      *)
(* (91-118) run by concurrent requests.                                    *)
(***************************************************************************)
Requests == {1, 2}

\* Files uploaded by a request are saved under its own name in uploads/.
LegacyPayloads == {<<104>>, <<105, 105>>}

LegacyCarriers == {CarrierOf(80, "white"), CarrierOf(8, "white")}

\* Line 63: 4-byte length, then the compressed data.
LegacyFrame(file_data) ==
    ToBytesBE(Len(zlib_compress(file_data)), 4) \o zlib_compress(file_data)

\* Images given to extract: made by hide from each payload, and a bare carrier.
LegacyImages ==
    {Embed(CarrierOf(80, "white"), LegacyFrame(d)) : d \in LegacyPayloads}
    \cup {CarrierOf(80, "white")}

\* The two paths the functions write: os.path.join(dirname(image_path),
\* 'output_image.png') with every upload saved in uploads/ (lines 86, 145),
\* and 'extracted_file' (line 115).
OutputImagePath == "uploads/output_image.png"

ExtractedFilePath == "extracted_file"

\* No file at a path, nothing read back yet.
Absent == <<>>

NoLegacyInput == [op |-> "none", image |-> <<>>, file_data |-> <<>>]

\* Lines 66-67 and 112: the function raises.
LegacyRaises(in) ==
    IF in.op = "hide"
    THEN CapacityExceeded(Len(LegacyFrame(in.file_data)), Len(in.image))
    ELSE zlib_decompress(PyFrom(BytesFromPixels(in.image), 4)) = ZError

\* Lines 51-82 and 94-112: what the function computes from its own input.
LegacyCompute(in) ==
    IF LegacyRaises(in) THEN <<>>
    ELSE IF in.op = "hide" THEN Embed(in.image, LegacyFrame(in.file_data))
    ELSE zlib_decompress(PyFrom(BytesFromPixels(in.image), 4))

LegacyPath(in) == IF in.op = "hide" THEN OutputImagePath ELSE ExtractedFilePath

\* A request enters hide_file_in_image (lines 51-82).
LegacyHide(r, image, file_data) ==
    /\ lpc[r] = "Idle"
    /\ LET in == [op |-> "hide", image |-> image, file_data |-> file_data] IN
       /\ lin' = [lin EXCEPT ![r] = in]
       /\ llocal' = [llocal EXCEPT ![r] = LegacyCompute(in)]
       /\ lpc' = [lpc EXCEPT ![r] =
                    IF LegacyRaises(in) THEN "Failed" ELSE "Computed"]
    /\ UNCHANGED <<fs, lout>>
    /\ UNCHANGED notLegacy

\* A request enters extract_file_from_image (lines 94-112).
LegacyExtract(r, image) ==
    /\ lpc[r] = "Idle"
    /\ LET in == [op |-> "extract", image |-> image, file_data |-> <<>>] IN
       /\ lin' = [lin EXCEPT ![r] = in]
       /\ llocal' = [llocal EXCEPT ![r] = LegacyCompute(in)]
       /\ lpc' = [lpc EXCEPT ![r] =
                    IF LegacyRaises(in) THEN "Failed" ELSE "Computed"]
    /\ UNCHANGED <<fs, lout>>
    /\ UNCHANGED notLegacy

\* Lines 85-88 and 115-118: the result is written to the fixed path and
\* the path is returned.
LegacyStore(r) ==
    /\ lpc[r] = "Computed"
    /\ fs' = [fs EXCEPT ![LegacyPath(lin[r])] = llocal[r]]
    /\ lpc' = [lpc EXCEPT ![r] = "Stored"]
    /\ UNCHANGED <<lin, llocal, lout>>
    /\ UNCHANGED notLegacy

\* Lines 170-176 and 197: the file at the returned path is sent back.
LegacyDeliver(r) ==
    /\ lpc[r] = "Stored"
    /\ lout' = [lout EXCEPT ![r] = fs[LegacyPath(lin[r])]]
    /\ lpc' = [lpc EXCEPT ![r] = "Done"]
    /\ UNCHANGED <<fs, lin, llocal>>
    /\ UNCHANGED notLegacy

LegacyIdle ==
    /\ fs = [path \in {OutputImagePath, ExtractedFilePath} |-> Absent]
    /\ lpc = [r \in Requests |-> "Idle"]
    /\ lin = [r \in Requests |-> NoLegacyInput]
    /\ llocal = [r \in Requests |-> <<>>]
    /\ lout = [r \in Requests |-> Absent]

(***************************************************************************)
(* cleanup.py: the scheduler of the cleanup worker and the cleanup pass.   *)
(***************************************************************************)
\* The threads that call init_cleanup_scheduler, start and stop.
Callers == {1, 2}

\* The calls the threads make in all.
MaxCalls == 3

\* The FileCleanupScheduler objects and worker threads that can be made.
MaxSchedulers == 2

MaxWorkers == 2

\* interval_seconds of _run_scheduler: the turns of its sleep loop.
IntervalSeconds == 1

\* max_age_hours * 3600 for the default of one hour.
MaxAgeSeconds == 3600

\* The names os.listdir can return.
Names == {"a", "b", "d"}

\* A name with nothing behind it.
Gone == [kind |-> "none", mtime |-> 0]

\* A comparison that also takes the files of age max_age_seconds exactly.
DeletesAtMaxAge(entry, now) ==
    entry.kind = "file" /\ now - entry.mtime >= MaxAgeSeconds

\* Lines 79-85: the entry is a regular file and older than max_age_seconds.
Deletes(entry, now) ==
    entry.kind = "file" /\ now - entry.mtime > MaxAgeSeconds

\* Lines 66-97 as one pass: every entry that is to be deleted is removed,
\* except those whose os.remove raises, which are logged and kept.
cleanup_old_files(dir, now, failing) ==
    [n \in Names |-> IF Deletes(dir[n], now) /\ n \notin failing THEN Gone ELSE dir[n]]

CleanUnchangedWorkers == UNCHANGED <<workers, folder, clock, sweep>>

\* A thread begins a call of init_cleanup_scheduler.
CallInit(c) ==
    /\ cpc[c] = "idle"
    /\ ncalls < MaxCalls
    /\ ncalls' = ncalls + 1
    /\ cpc' = [cpc EXCEPT ![c] = "init_check"]
    /\ UNCHANGED <<_cleanup_scheduler, running, thread, cself>>
    /\ CleanUnchangedWorkers
    /\ UNCHANGED notClean

\* Lines 115-117.
InitCheck(c) ==
    /\ cpc[c] = "init_check"
    /\ cpc' = [cpc EXCEPT ![c] = IF _cleanup_scheduler # 0 THEN "idle"
                                 ELSE "init_create"]
    /\ UNCHANGED <<_cleanup_scheduler, running, thread, cself, ncalls>>
    /\ CleanUnchangedWorkers
    /\ UNCHANGED notClean

\* Line 119: a new object, running = False and thread = None, becomes the
\* global.
InitCreate(c) ==
    /\ cpc[c] = "init_create"
    /\ Len(running) < MaxSchedulers
    /\ running' = Append(running, FALSE)
    /\ thread' = Append(thread, 0)
    /\ _cleanup_scheduler' = Len(running) + 1
    /\ cpc' = [cpc EXCEPT ![c] = "init_start"]
    /\ UNCHANGED <<cself, ncalls>>
    /\ CleanUnchangedWorkers
    /\ UNCHANGED notClean

\* Line 120: start is called on the object the global holds now.
InitStart(c) ==
    /\ cpc[c] = "init_start"
    /\ cself' = [cself EXCEPT ![c] = _cleanup_scheduler]
    /\ cpc' = [cpc EXCEPT ![c] = "start_check"]
    /\ UNCHANGED <<_cleanup_scheduler, running, thread, ncalls>>
    /\ CleanUnchangedWorkers
    /\ UNCHANGED notClean

\* A thread begins a call of start on an object.
CallStart(c, s) ==
    /\ cpc[c] = "idle"
    /\ ncalls < MaxCalls
    /\ s \in 1..Len(running)
    /\ ncalls' = ncalls + 1
    /\ cself' = [cself EXCEPT ![c] = s]
    /\ cpc' = [cpc EXCEPT ![c] = "start_check"]
    /\ UNCHANGED <<_cleanup_scheduler, running, thread>>
    /\ CleanUnchangedWorkers
    /\ UNCHANGED notClean

\* Lines 34-36.
StartCheck(c) ==
    /\ cpc[c] = "start_check"
    /\ cpc' = [cpc EXCEPT ![c] = IF running[cself[c]] THEN "idle" ELSE "start_set"]
    /\ UNCHANGED <<_cleanup_scheduler, running, thread, cself, ncalls>>
    /\ CleanUnchangedWorkers
    /\ UNCHANGED notClean

\* A start whose test and assignment of running are one step.
StartCheckAndSet(c) ==
    /\ cpc[c] = "start_check"
    /\ IF running[cself[c]]
       THEN /\ cpc' = [cpc EXCEPT ![c] = "idle"]
            /\ running' = running
       ELSE /\ cpc' = [cpc EXCEPT ![c] = "start_spawn"]
            /\ running' = [running EXCEPT ![cself[c]] = TRUE]
    /\ UNCHANGED <<_cleanup_scheduler, thread, cself, ncalls>>
    /\ CleanUnchangedWorkers
    /\ UNCHANGED notClean

\* Line 38.
StartSet(c) ==
    /\ cpc[c] = "start_set"
    /\ running' = [running EXCEPT ![cself[c]] = TRUE]
    /\ cpc' = [cpc EXCEPT ![c] = "start_spawn"]
    /\ UNCHANGED <<_cleanup_scheduler, thread, cself, ncalls>>
    /\ CleanUnchangedWorkers
    /\ UNCHANGED notClean

\* Lines 39-41: a new thread, at the top of _run_scheduler.
StartSpawn(c) ==
    /\ cpc[c] = "start_spawn"
    /\ Len(workers) < MaxWorkers
    /\ workers' = Append(workers, [self |-> cself[c], pc |-> "check", left |-> 0])
    /\ thread' = [thread EXCEPT ![cself[c]] = Len(workers) + 1]
    /\ cpc' = [cpc EXCEPT ![c] = "idle"]
    /\ UNCHANGED <<_cleanup_scheduler, running, cself, ncalls, folder, clock,
                   sweep>>
    /\ UNCHANGED notClean

\* A thread begins a call of stop on an object.
CallStop(c, s) ==
    /\ cpc[c] = "idle"
    /\ ncalls < MaxCalls
    /\ s \in 1..Len(running)
    /\ ncalls' = ncalls + 1
    /\ cself' = [cself EXCEPT ![c] = s]
    /\ cpc' = [cpc EXCEPT ![c] = "stop_clear"]
    /\ UNCHANGED <<_cleanup_scheduler, running, thread>>
    /\ CleanUnchangedWorkers
    /\ UNCHANGED notClean

\* Line 45.
StopClear(c) ==
    /\ cpc[c] = "stop_clear"
    /\ running' = [running EXCEPT ![cself[c]] = FALSE]
    /\ cpc' = [cpc EXCEPT ![c] = "stop_join"]
    /\ UNCHANGED <<_cleanup_scheduler, thread, cself, ncalls>>
    /\ CleanUnchangedWorkers
    /\ UNCHANGED notClean

\* Lines 46-48: join(timeout=5) returns when the worker has ended, or after
\* 5 seconds: while the worker is in a cleanup pass that takes longer, or
\* when running has been set again and the worker goes on.
StopJoin(c) ==
    /\ cpc[c] = "stop_join"
    /\ LET s == cself[c] IN
       IF thread[s] = 0 \/ thread[s] > Len(workers) THEN TRUE
       ELSE workers[thread[s]].pc \in {"exited", "cleanup"} \/ running[s]
    /\ cpc' = [cpc EXCEPT ![c] = "idle"]
    /\ UNCHANGED <<_cleanup_scheduler, running, thread, cself, ncalls>>
    /\ CleanUnchangedWorkers
    /\ UNCHANGED notClean

CleanUnchangedCallers ==
    UNCHANGED <<_cleanup_scheduler, running, thread, cpc, cself, ncalls, clock,
                sweep>>

\* Line 54: while self.running.
WorkerCheck(w) ==
    /\ workers[w].pc = "check"
    /\ workers' = [workers EXCEPT ![w].pc =
                     IF running[workers[w].self] THEN "cleanup" ELSE "exited"]
    /\ folder' = folder
    /\ CleanUnchangedCallers
    /\ UNCHANGED notClean

\* Lines 55-58 and 61: one cleanup pass; whatever it raises is logged.
WorkerCleanup(w) ==
    /\ workers[w].pc = "cleanup"
    /\ \E failing \in SUBSET Names :
          folder' = cleanup_old_files(folder, clock, failing)
    /\ workers' = [workers EXCEPT ![w].pc = "sleep", ![w].left = IntervalSeconds]
    /\ CleanUnchangedCallers
    /\ UNCHANGED notClean

\* A sleep loop that does not look at running.
WorkerSleepThrough(w) ==
    /\ workers[w].pc = "sleep"
    /\ workers' = IF workers[w].left = 0
                  THEN [workers EXCEPT ![w].pc = "cleanup",
                                       ![w].left = IntervalSeconds]
                  ELSE [workers EXCEPT ![w].left = @ - 1]
    /\ folder' = folder
    /\ CleanUnchangedCallers
    /\ UNCHANGED notClean

\* Lines 61-64: one turn of the sleep loop.
WorkerSleep(w) ==
    /\ workers[w].pc = "sleep"
    /\ workers' = IF workers[w].left = 0 \/ ~running[workers[w].self]
                  THEN [workers EXCEPT ![w].pc = "check"]
                  ELSE [workers EXCEPT ![w].left = @ - 1]
    /\ folder' = folder
    /\ CleanUnchangedCallers
    /\ UNCHANGED notClean

(***************************************************************************)
(* detect_qr and its deduplication cache (routes.py 26-28, 655-748).       *)
(* Times are counted in whole seconds.                                    *)
(***************************************************************************)
MaxRequests == 3

ExpirySeconds == 5

HitSeconds == 1

\* The values time.time() takes: ages of 0, HitSeconds, ExpirySeconds and
\* more than ExpirySeconds all occur between them.
Times == {0, HitSeconds, ExpirySeconds, ExpirySeconds + HitSeconds}

\* hashlib.md5(...).hexdigest(): a digest that tells the contents of the
\* uploads below apart.
md5(data) == <<"md5", data>>

\* request.files: no 'image' part, a part with an empty filename, and two
\* frames, one showing a QR code and one not.
NoUpload == [present |-> FALSE, filename |-> "", data |-> <<>>, qr |-> FALSE]

Uploads ==
    { NoUpload,
      [present |-> TRUE, filename |-> "", data |-> <<>>, qr |-> FALSE],
      [present |-> TRUE, filename |-> "f.png", data |-> <<1>>, qr |-> TRUE],
      [present |-> TRUE, filename |-> "f.png", data |-> <<2>>, qr |-> FALSE] }

\* The JSON bodies detect_qr answers with.
NoBody == [none |-> TRUE]

NotDetected == [detected |-> FALSE]

Decoded(detected) == [detected |-> detected, success |-> TRUE]

NoLibrary == [detected |-> FALSE, error |-> "QR detection library not available"]

EmptySlot == [live |-> FALSE, key |-> md5(<<>>), ts |-> 0, resp |-> NotDetected]

IdleRequest ==
    [pc |-> "idle", image |-> NoUpload, image_hash |-> md5(<<>>),
     current_time |-> 0, pos |-> 1, used |-> 0, dlen |-> 0,
     expired_keys |-> <<>>, response_data |-> NotDetected, saved |-> FALSE,
     body |-> NoBody, status |-> 0]

\* len(qr_detection_cache)
Used(cache) == Cardinality({i \in DOMAIN cache : cache[i].live})

\* The slot of key k, 0 when the dict has no such key.
SlotOf(cache, k) ==
    IF \E i \in DOMAIN cache : cache[i].live /\ cache[i].key = k
    THEN CHOOSE i \in DOMAIN cache : cache[i].live /\ cache[i].key = k
    ELSE 0

\* return jsonify(body), status: what is left of the handler is its finally.
Return(r, body, status) ==
    reqs' = [reqs EXCEPT ![r].pc = "finally", ![r].body = body,
                         ![r].status = status]

\* except Exception as e (737-739)
Unexpected(r) == Return(r, NotDetected, 200)

RouteUnchangedDetect ==
    UNCHANGED <<error_message, is_debug, safe_message, san_pc>>

\* Lines 655-671: the request arrives, the image is read and hashed and the
\* time is taken.
DetectBegin(r, upload) ==
    /\ reqs[r].pc = "idle"
    /\ nreq < MaxRequests
    /\ nreq' = nreq + 1
    /\ IF ~upload.present \/ upload.filename = ""
       THEN reqs' = [reqs EXCEPT ![r] = [IdleRequest EXCEPT
                        !.pc = "finally", !.image = upload,
                        !.body = NotDetected, !.status = 200]]
       ELSE reqs' = [reqs EXCEPT ![r] = [IdleRequest EXCEPT
                        !.pc = "scan", !.image = upload,
                        !.image_hash = md5(upload.data),
                        !.current_time = wall,
                        !.pos = 1,
                        !.used = Used(qr_detection_cache),
                        !.dlen = Used(qr_detection_cache)]]
    /\ UNCHANGED <<qr_detection_cache, wall>>
    /\ RouteUnchangedDetect
    /\ UNCHANGED notRoute

\* Line 674, one turn of the comprehension over qr_detection_cache.items():
\* the iterator raises RuntimeError when the dict has changed size since
\* the iteration began, else it yields the next live slot; a slot found
\* after as many items as the dict had at the start have been yielded is
\* an error too in the interpreters that count them.
DetectScan(r) ==
    LET q == reqs[r]
        live == {i \in q.pos..Len(qr_detection_cache) : qr_detection_cache[i].live}
        i == CHOOSE j \in live : \A k \in live : j <= k
        e == qr_detection_cache[i]
        Yield == reqs' = [reqs EXCEPT
                     ![r].pos = i + 1,
                     ![r].dlen = IF q.dlen > 0 THEN q.dlen - 1 ELSE 0,
                     ![r].expired_keys =
                         IF q.current_time - e.ts > ExpirySeconds
                         THEN Append(q.expired_keys, e.key)
                         ELSE q.expired_keys]
    IN
    /\ q.pc = "scan"
    /\ IF Used(qr_detection_cache) # q.used
       THEN Unexpected(r)
       ELSE IF live = {}
       THEN reqs' = [reqs EXCEPT ![r].pc = "evict"]
       ELSE IF q.dlen = 0
       THEN Unexpected(r) \/ Yield
       ELSE Yield
    /\ UNCHANGED <<qr_detection_cache, wall, nreq>>
    /\ RouteUnchangedDetect
    /\ UNCHANGED notRoute

\* Lines 675-676, one turn: del qr_detection_cache[k], a KeyError when
\* the key is no longer there.
DetectEvict(r) ==
    LET q == reqs[r]
        k == Head(q.expired_keys)
        i == SlotOf(qr_detection_cache, k)
    IN
    /\ q.pc = "evict"
    /\ IF q.expired_keys = <<>>
       THEN /\ reqs' = [reqs EXCEPT ![r].pc = "lookup"]
            /\ UNCHANGED qr_detection_cache
       ELSE IF i = 0
       THEN /\ Unexpected(r)
            /\ UNCHANGED qr_detection_cache
       ELSE /\ qr_detection_cache' = [qr_detection_cache EXCEPT ![i] = EmptySlot]
            /\ reqs' = [reqs EXCEPT ![r].expired_keys = Tail(q.expired_keys)]
    /\ UNCHANGED <<wall, nreq>>
    /\ RouteUnchangedDetect
    /\ UNCHANGED notRoute

\* Line 680: if image_hash in qr_detection_cache
DetectLookup(r) ==
    /\ reqs[r].pc = "lookup"
    /\ reqs' = [reqs EXCEPT ![r].pc =
                   IF SlotOf(qr_detection_cache, reqs[r].image_hash) # 0
                   THEN "fetch" ELSE "save"]
    /\ UNCHANGED <<qr_detection_cache, wall, nreq>>
    /\ RouteUnchangedDetect
    /\ UNCHANGED notRoute

\* Lines 681-684: the entry is read (a KeyError when it has been deleted
\* since line 680) and answered from when it is less than a second old.
DetectFetch(r) ==
    LET q == reqs[r]
        i == SlotOf(qr_detection_cache, q.image_hash)
    IN
    /\ q.pc = "fetch"
    /\ IF i = 0
       THEN Unexpected(r)
       ELSE IF q.current_time - qr_detection_cache[i].ts < HitSeconds
       THEN Return(r, qr_detection_cache[i].resp, 200)
       ELSE reqs' = [reqs EXCEPT ![r].pc = "save"]
    /\ UNCHANGED <<qr_detection_cache, wall, nreq>>
    /\ RouteUnchangedDetect
    /\ UNCHANGED notRoute

\* Lines 687-702: the frame is saved under a fresh name, or the save fails.
DetectSave(r) ==
    /\ reqs[r].pc = "save"
    /\ \/ reqs' = [reqs EXCEPT ![r].pc = "decode", ![r].saved = TRUE]
       \/ Return(r, NotDetected, 200)
    /\ UNCHANGED <<qr_detection_cache, wall, nreq>>
    /\ RouteUnchangedDetect
    /\ UNCHANGED notRoute

\* Lines 705-720 and 726-735: the frame is decoded, or the import of
\* pyzbar fails, or the decoder raises.
DetectDecode(r) ==
    /\ reqs[r].pc = "decode"
    /\ \/ reqs' = [reqs EXCEPT ![r].pc = "store",
                               ![r].response_data = Decoded(reqs[r].image.qr)]
       \/ Return(r, NoLibrary, 500)
       \/ Return(r, NotDetected, 200)
    /\ UNCHANGED <<qr_detection_cache, wall, nreq>>
    /\ RouteUnchangedDetect
    /\ UNCHANGED notRoute

\* Lines 721-724: qr_detection_cache[image_hash] = (current_time,
\* response_data): the value of a key already there is replaced in its
\* slot, a new key takes the next slot.
DetectStore(r) ==
    LET q == reqs[r]
        i == SlotOf(qr_detection_cache, q.image_hash)
        entry == [live |-> TRUE, key |-> q.image_hash, ts |-> q.current_time,
                  resp |-> q.response_data]
    IN
    /\ q.pc = "store"
    /\ qr_detection_cache' =
          IF i # 0 THEN [qr_detection_cache EXCEPT ![i] = entry]
          ELSE Append(qr_detection_cache, entry)
    /\ Return(r, q.response_data, 200)
    /\ UNCHANGED <<wall, nreq>>
    /\ RouteUnchangedDetect
    /\ UNCHANGED notRoute

\* Lines 741-748: the finally removes the saved frame, or logs that it
\* could not; the response goes out.
DetectFinally(r) ==
    /\ reqs[r].pc = "finally"
    /\ \/ reqs' = [reqs EXCEPT ![r] = IdleRequest]
       \/ /\ reqs[r].saved
          /\ reqs' = [reqs EXCEPT ![r] = [IdleRequest EXCEPT !.saved = TRUE]]
    /\ UNCHANGED <<qr_detection_cache, wall, nreq>>
    /\ RouteUnchangedDetect
    /\ UNCHANGED notRoute

\* time.time() moves on.
WallTick ==
    /\ \E t \in Times : t > wall
    /\ wall' = CHOOSE t \in Times : t > wall /\ \A u \in Times : u > wall => t <= u
    /\ UNCHANGED <<qr_detection_cache, reqs, nreq>>
    /\ RouteUnchangedDetect
    /\ UNCHANGED notRoute

(***************************************************************************)
(* sanitize_error (routes.py 31-66).  A str is the sequence of its         *)
(* characters.                                                             *)
(***************************************************************************)
UpperCase ==
    << "A", "B", "C", "D", "E", "F", "G", "H", "I", "J", "K", "L", "M",
       "N", "O", "P", "Q", "R", "S", "T", "U", "V", "W", "X", "Y", "Z" >>

LowerCase ==
    << "a", "b", "c", "d", "e", "f", "g", "h", "i", "j", "k", "l", "m",
       "n", "o", "p", "q", "r", "s", "t", "u", "v", "w", "x", "y", "z" >>

\* str.lower()
lower(text) ==
    [i \in 1..Len(text) |->
        IF \E k \in DOMAIN UpperCase : UpperCase[k] = text[i]
        THEN LowerCase[CHOOSE k \in DOMAIN UpperCase : UpperCase[k] = text[i]]
        ELSE text[i]]

\* word in text
Contains(text, word) ==
    \E i \in 1..(Len(text) - Len(word) + 1) :
        SubSeq(text, i, i + Len(word) - 1) = word

\* The keywords of lines 57-63.
KwPassword ==
    << "p", "a", "s", "s", "w", "o", "r", "d" >>

KwIncorrectPassword ==
    << "i", "n", "c", "o", "r", "r", "e", "c", "t", " ", "p", "a", "s",
       "s", "w", "o", "r", "d" >>

KwCapacity ==
    << "c", "a", "p", "a", "c", "i", "t", "y" >>

KwNotEnough ==
    << "n", "o", "t", " ", "e", "n", "o", "u", "g", "h" >>

KwInvalid ==
    << "i", "n", "v", "a", "l", "i", "d" >>

KwCorrupt ==
    << "c", "o", "r", "r", "u", "p", "t" >>

KwFailedToExtract ==
    << "f", "a", "i", "l", "e", "d", " ", "t", "o", " ", "e", "x", "t",
       "r", "a", "c", "t" >>

KwNotFound ==
    << "n", "o", "t", " ", "f", "o", "u", "n", "d" >>

\* The messages of lines 32-38.
SafePassword ==
    << "A", "u", "t", "h", "e", "n", "t", "i", "c", "a", "t", "i", "o",
       "n", " ", "f", "a", "i", "l", "e", "d", ".", " ", "P", "l", "e",
       "a", "s", "e", " ", "c", "h", "e", "c", "k", " ", "y", "o", "u",
       "r", " ", "p", "a", "s", "s", "w", "o", "r", "d", "." >>

SafeCapacity ==
    << "T", "h", "e", " ", "s", "e", "l", "e", "c", "t", "e", "d", " ",
       "i", "m", "a", "g", "e", " ", "i", "s", " ", "t", "o", "o", " ",
       "s", "m", "a", "l", "l", " ", "t", "o", " ", "h", "i", "d", "e",
       " ", "t", "h", "i", "s", " ", "f", "i", "l", "e", "." >>

SafeValidation ==
    << "I", "n", "v", "a", "l", "i", "d", " ", "f", "i", "l", "e", " ",
       "f", "o", "r", "m", "a", "t", " ", "o", "r", " ", "c", "o", "r",
       "r", "u", "p", "t", "e", "d", " ", "d", "a", "t", "a", "." >>

SafeNotFound ==
    << "T", "h", "e", " ", "r", "e", "q", "u", "e", "s", "t", "e", "d",
       " ", "f", "i", "l", "e", " ", "c", "o", "u", "l", "d", " ", "n",
       "o", "t", " ", "b", "e", " ", "f", "o", "u", "n", "d", "." >>

SafeGeneric ==
    << "A", "n", " ", "e", "r", "r", "o", "r", " ", "o", "c", "c", "u",
       "r", "r", "e", "d", " ", "w", "h", "i", "l", "e", " ", "p", "r",
       "o", "c", "e", "s", "s", "i", "n", "g", " ", "y", "o", "u", "r",
       " ", "r", "e", "q", "u", "e", "s", "t", ".", " ", "P", "l", "e",
       "a", "s", "e", " ", "t", "r", "y", " ", "a", "g", "a", "i", "n",
       "." >>

SAFE_ERROR_MESSAGES ==
    [password |-> SafePassword, capacity |-> SafeCapacity,
     validation |-> SafeValidation, not_found |-> SafeNotFound,
     generic |-> SafeGeneric]

\* The same chain without the lower() of line 55.
sanitize_error_case_sensitive(msg, debug) ==
    IF debug THEN msg
    ELSE IF Contains(msg, KwPassword) \/ Contains(msg, KwIncorrectPassword)
    THEN SAFE_ERROR_MESSAGES.password
    ELSE IF Contains(msg, KwCapacity) \/ Contains(msg, KwNotEnough)
    THEN SAFE_ERROR_MESSAGES.capacity
    ELSE IF Contains(msg, KwInvalid) \/ Contains(msg, KwCorrupt)
            \/ Contains(msg, KwFailedToExtract)
    THEN SAFE_ERROR_MESSAGES.validation
    ELSE IF Contains(msg, KwNotFound)
    THEN SAFE_ERROR_MESSAGES.not_found
    ELSE SAFE_ERROR_MESSAGES.generic

\* Lines 41-66.
sanitize_error(msg, debug) ==
    IF debug THEN msg
    ELSE LET error_lower == lower(msg) IN
         IF Contains(error_lower, KwPassword)
            \/ Contains(error_lower, KwIncorrectPassword)
         THEN SAFE_ERROR_MESSAGES.password
         ELSE IF Contains(error_lower, KwCapacity)
                 \/ Contains(error_lower, KwNotEnough)
         THEN SAFE_ERROR_MESSAGES.capacity
         ELSE IF Contains(error_lower, KwInvalid)
                 \/ Contains(error_lower, KwCorrupt)
                 \/ Contains(error_lower, KwFailedToExtract)
         THEN SAFE_ERROR_MESSAGES.validation
         ELSE IF Contains(error_lower, KwNotFound)
         THEN SAFE_ERROR_MESSAGES.not_found
         ELSE SAFE_ERROR_MESSAGES.generic

\* Pieces of the messages the application raises and of texts an exception
\* of a library carries; a message is one piece or two joined.
FrIncorrectPassword ==
    << "I", "n", "c", "o", "r", "r", "e", "c", "t", " ", "p", "a", "s",
       "s", "w", "o", "r", "d" >>

FrPasswordUpper ==
    << "P", "A", "S", "S", "W", "O", "R", "D", " ", "r", "e", "q", "u",
       "i", "r", "e", "d" >>

FrNotEnough ==
    << "N", "o", "t", " ", "e", "n", "o", "u", "g", "h", " ", "r", "o",
       "o", "m" >>

FrCapacity ==
    << "C", "a", "p", "a", "c", "i", "t", "y", " ", "e", "x", "c", "e",
       "e", "d", "e", "d" >>

FrInvalid ==
    << "I", "n", "v", "a", "l", "i", "d", " ", "P", "N", "G" >>

FrCorrupted ==
    << "f", "i", "l", "e", " ", "i", "s", " ", "C", "o", "r", "r", "u",
       "p", "t", "e", "d" >>

FrFailedToExtract ==
    << "F", "a", "i", "l", "e", "d", " ", "t", "o", " ", "e", "x", "t",
       "r", "a", "c", "t", ":", " " >>

FrNotFound ==
    << "F", "i", "l", "e", " ", "N", "o", "t", " ", "F", "o", "u", "n",
       "d" >>

FrPath ==
    << "/", "s", "r", "v", "/", "a", "p", "p", "/", "k", "e", "y", ".",
       "p", "e", "m" >>

FrErrno ==
    << "[", "E", "r", "r", "n", "o", " ", "1", "3", "]", " ", "d", "e",
       "n", "i", "e", "d", " " >>

Fragments ==
    { <<>>, FrIncorrectPassword, FrPasswordUpper, FrNotEnough, FrCapacity,
      FrInvalid, FrCorrupted, FrFailedToExtract, FrNotFound, FrPath, FrErrno }

Messages == {a \o b : a \in Fragments, b \in Fragments}

SanitizeCall(msg, debug) ==
    /\ san_pc = "Returned"
    /\ error_message' = msg
    /\ is_debug' = debug
    /\ safe_message' = <<>>
    /\ san_pc' = "Called"
    /\ UNCHANGED <<qr_detection_cache, reqs, wall, nreq>>
    /\ UNCHANGED notRoute

SanitizeReturn ==
    /\ san_pc = "Called"
    /\ safe_message' = sanitize_error(error_message, is_debug)
    /\ san_pc' = "Returned"
    /\ UNCHANGED <<error_message, is_debug>>
    /\ UNCHANGED <<qr_detection_cache, reqs, wall, nreq>>
    /\ UNCHANGED notRoute

DetectIdle ==
    /\ qr_detection_cache = <<>>
    /\ reqs = [r \in Requests |-> IdleRequest]
    /\ wall = 0
    /\ nreq = 0

RouteIdle ==
    /\ DetectIdle
    /\ error_message = <<>>
    /\ is_debug = FALSE
    /\ safe_message = <<>>
    /\ san_pc = "Idle"

(***************************************************************************)
(* cleanup_old_files (cleanup.py 66-97) followed file by file, while       *)
(* request threads remove files of their own from the folder.              *)
(***************************************************************************)
NoSweep ==
    [pc |-> "idle", now |-> 0, listed |-> {}, todo |-> {}, filename |-> "",
     examined |-> {}, failed |-> {}, deleted_count |-> 0, aborted |-> FALSE]

SweepUnchanged ==
    UNCHANGED <<_cleanup_scheduler, running, thread, workers, cpc, cself,
                ncalls, clock>>

\* Lines 68-75: now is taken and the folder listed.
SweepBegin ==
    /\ sweep.pc = "idle"
    /\ sweep' = [NoSweep EXCEPT
                   !.pc = "next", !.now = clock,
                   !.listed = {n \in Names : folder[n] # Gone},
                   !.todo = {n \in Names : folder[n] # Gone}]
    /\ UNCHANGED folder
    /\ SweepUnchanged
    /\ UNCHANGED notClean

\* Line 75-76: the next name of the listing, in whatever order os.listdir
\* gave them; lines 93-94 when there is none left.
SweepNext ==
    /\ sweep.pc = "next"
    /\ IF sweep.todo = {}
       THEN sweep' = [sweep EXCEPT !.pc = "done"]
       ELSE \E n \in sweep.todo :
               sweep' = [sweep EXCEPT !.pc = "isfile", !.filename = n,
                                      !.todo = @ \ {n},
                                      !.examined = @ \cup {n}]
    /\ UNCHANGED folder
    /\ SweepUnchanged
    /\ UNCHANGED notClean

\* Lines 79-80: what is no regular file is skipped.
SweepIsFile ==
    /\ sweep.pc = "isfile"
    /\ sweep' = [sweep EXCEPT !.pc = IF folder[sweep.filename].kind = "file"
                                     THEN "getmtime" ELSE "next"]
    /\ UNCHANGED folder
    /\ SweepUnchanged
    /\ UNCHANGED notClean

\* Lines 83-85: os.path.getmtime raises when the file has gone since line
\* 79, and the except of line 96 ends the pass; else the age is compared.
SweepGetMtime ==
    /\ sweep.pc = "getmtime"
    /\ sweep' =
          IF folder[sweep.filename] = Gone
          THEN [sweep EXCEPT !.pc = "done", !.aborted = TRUE]
          ELSE IF Deletes(folder[sweep.filename], sweep.now)
          THEN [sweep EXCEPT !.pc = "remove"]
          ELSE [sweep EXCEPT !.pc = "next"]
    /\ UNCHANGED folder
    /\ SweepUnchanged
    /\ UNCHANGED notClean

\* Lines 86-91: os.remove, or its exception logged; the loop goes on.
SweepRemove ==
    /\ sweep.pc = "remove"
    /\ \/ /\ folder[sweep.filename] # Gone
          /\ folder' = [folder EXCEPT ![sweep.filename] = Gone]
          /\ sweep' = [sweep EXCEPT !.pc = "next", !.deleted_count = @ + 1]
       \/ /\ folder' = folder
          /\ sweep' = [sweep EXCEPT !.pc = "next",
                                    !.failed = @ \cup {sweep.filename}]
    /\ SweepUnchanged
    /\ UNCHANGED notClean

\* A request thread removes a file it saved (the finally clauses of the
\* routes).
RequestRemoves(n) ==
    /\ sweep.pc \notin {"idle", "done"}
    /\ folder[n].kind = "file"
    /\ folder' = [folder EXCEPT ![n] = Gone]
    /\ UNCHANGED sweep
    /\ SweepUnchanged
    /\ UNCHANGED notClean

\* The entries a name can stand for at time 5000: nothing, a directory, a
\* file of age max_age_seconds + 1, of age max_age_seconds exactly, of age
\* 0, and one whose mtime lies ahead.
FolderEntries ==
    { Gone, [kind |-> "dir", mtime |-> 1000] }
    \cup { [kind |-> "file", mtime |-> m] :
              m \in {5000 - MaxAgeSeconds - 1, 5000 - MaxAgeSeconds, 5000, 5010} }

Folders == [Names -> FolderEntries]

\* An upload folder with an old file, a young file and a directory, and the
\* time of the passes.
SomeFolder ==
    [n \in Names |->
        IF n = "a" THEN [kind |-> "file", mtime |-> 1000]
        ELSE IF n = "b" THEN [kind |-> "file", mtime |-> 5000]
        ELSE [kind |-> "dir", mtime |-> 1000]]

SchedulerIdle ==
    /\ _cleanup_scheduler = 0
    /\ running = <<>>
    /\ thread = <<>>
    /\ workers = <<>>
    /\ cpc = [c \in Callers |-> "idle"]
    /\ cself = [c \in Callers |-> 0]
    /\ ncalls = 0

CleanIdle ==
    /\ SchedulerIdle
    /\ folder = SomeFolder
    /\ clock = 5000
    /\ sweep = NoSweep

StegoIdle ==
    /\ hpc = "Idle"
    /\ hin = NoInput
    /\ host_pixels = <<>>
    /\ compressed_data = <<>>
    /\ salt = <<>>
    /\ data_to_hide = <<>>
    /\ out_file = NoFile
    /\ herr = ""
    /\ xpc = "Idle"
    /\ xpassword = None
    /\ data_bytes = <<>>
    /\ xframe = NoFrame
    /\ xresult = NoResult
    /\ xerr = ""
    /\ kdf_calls = 0

InitStego == StegoIdle /\ PolyIdle /\ QrIdle /\ LegacyIdle /\ CleanIdle /\ RouteIdle /\ HAS_PYZIPPER = FALSE

NextStego ==
    \/ \E image \in Carriers, file \in Files, password \in HidePasswords :
          /\ xpc = "Idle"
          /\ HideOpen(image, file, password)
    \/ HideCompress
    \/ HideEncrypt
    \/ HideSerialize
    \/ HideCapacityCheck
    \/ HideEmbed
    \/ HideSave
    \/ \E password \in ExtractPasswords :
          /\ hpc = "Done"
          /\ ExtractOpen(out_file.pixels, password)
    \/ \E password \in ExtractPasswords :
          /\ hpc = "Done"
          /\ ExtractOpen(Embed(hin.image, TamperedFrame(data_to_hide)), password)
    \/ \E image \in Carriers, password \in ExtractPasswords :
          /\ hpc = "Idle"
          /\ ExtractOpen(image, password)
    \/ ExtractCheckFlag
    \/ ExtractParse
    \/ ExtractDecrypt
    \/ ExtractDecompress

SpecStego == InitStego /\ [][NextStego]_vars

(***************************************************************************)
(* The capacity scenario: one hide of a scenario file in a scenario        *)
(* carrier without a password, then one extract of the image it saved.     *)
(***************************************************************************)
NextScenario ==
    \/ \E image \in ScenarioCarriers, file \in ScenarioFiles :
          /\ xpc = "Idle"
          /\ HideOpen(image, file, None)
    \/ HideCompress
    \/ HideEncrypt
    \/ HideSerialize
    \/ HideCapacityCheck
    \/ HideEmbed
    \/ HideSave
    \/ /\ hpc = "Done"
       /\ ExtractOpen(out_file.pixels, None)
    \/ ExtractCheckFlag
    \/ ExtractParse
    \/ ExtractDecrypt
    \/ ExtractDecompress

SpecScenario == InitStego /\ [][NextScenario]_vars

(***************************************************************************)
(* The cleanup scheduler: threads that call init_cleanup_scheduler, start  *)
(* and stop, and the worker threads they make.                             *)
(***************************************************************************)
InitCleanup == StegoIdle /\ PolyIdle /\ QrIdle /\ LegacyIdle /\ CleanIdle /\ RouteIdle /\ HAS_PYZIPPER = FALSE

WorkerStep(w) == WorkerCheck(w) \/ WorkerCleanup(w) \/ WorkerSleep(w)

NextCleanup ==
    \/ \E c \in Callers :
          \/ CallInit(c)
          \/ InitCheck(c)
          \/ InitCreate(c)
          \/ InitStart(c)
          \/ \E s \in 1..MaxSchedulers : CallStart(c, s)
          \/ StartCheck(c)
          \/ StartSet(c)
          \/ StartSpawn(c)
          \/ \E s \in 1..MaxSchedulers : CallStop(c, s)
          \/ StopClear(c)
          \/ StopJoin(c)
    \/ \E w \in 1..MaxWorkers : w <= Len(workers) /\ WorkerStep(w)

SpecCleanup == InitCleanup /\ [][NextCleanup]_vars

\* A worker thread that can take a step takes it.
SpecCleanupFair ==
    SpecCleanup /\ \A w \in 1..MaxWorkers : WF_vars(w <= Len(workers) /\ WorkerStep(w))

(***************************************************************************)
(* One pass of cleanup_old_files over every folder of Folders.             *)
(***************************************************************************)
InitSweep ==
    /\ StegoIdle /\ PolyIdle /\ QrIdle /\ LegacyIdle /\ RouteIdle
    /\ HAS_PYZIPPER = FALSE
    /\ SchedulerIdle
    /\ folder \in Folders
    /\ clock = 5000
    /\ sweep = NoSweep

NextSweep ==
    \/ SweepBegin
    \/ SweepNext
    \/ SweepIsFile
    \/ SweepGetMtime
    \/ SweepRemove
    \/ \E n \in Names : RequestRemoves(n)

SpecSweep == InitSweep /\ [][NextSweep]_vars

(***************************************************************************)
(* Calls of sanitize_error.                                                *)
(***************************************************************************)
InitSanitize ==
    /\ StegoIdle /\ PolyIdle /\ QrIdle /\ LegacyIdle /\ CleanIdle /\ DetectIdle
    /\ HAS_PYZIPPER = FALSE
    /\ error_message \in Messages
    /\ is_debug \in BOOLEAN
    /\ safe_message = <<>>
    /\ san_pc = "Called"

NextSanitize ==
    \/ \E msg \in Messages, debug \in BOOLEAN : SanitizeCall(msg, debug)
    \/ SanitizeReturn

SpecSanitize == InitSanitize /\ [][NextSanitize]_vars

(***************************************************************************)
(* Requests to /api/qr/detect, served by concurrent threads.               *)
(***************************************************************************)
InitDetect == StegoIdle /\ PolyIdle /\ QrIdle /\ LegacyIdle /\ CleanIdle /\ RouteIdle /\ HAS_PYZIPPER = FALSE

NextDetect ==
    \/ \E r \in Requests :
          \/ \E upload \in Uploads : DetectBegin(r, upload)
          \/ DetectScan(r)
          \/ DetectEvict(r)
          \/ DetectLookup(r)
          \/ DetectFetch(r)
          \/ DetectSave(r)
          \/ DetectDecode(r)
          \/ DetectStore(r)
          \/ DetectFinally(r)
    \/ WallTick

SpecDetect == InitDetect /\ [][NextDetect]_vars

(***************************************************************************)
(* The polyglot composer: one create, then one extract of the file left at *)
(* output_path.                                                            *)
(***************************************************************************)
InitPoly == StegoIdle /\ PolyIdle /\ QrIdle /\ LegacyIdle /\ CleanIdle /\ RouteIdle /\ HAS_PYZIPPER \in BOOLEAN

NextPoly ==
    \/ \E carrier \in PolyCarriers, file \in PolyFiles,
          password \in PolyPasswords, fault \in Faults :
          /\ epc = "Idle"
          /\ CreateStart(carrier, file, password, fault)
    \/ CreateReadCarrier
    \/ CreateBuildZip
    \/ CreateWriteOutput
    \/ FixEocd
    \/ FixEntry
    \/ CreateFinally
    \/ \E password \in PolyExtractPasswords :
          /\ ppc \in {"Done", "Failed"}
          /\ output.exists
          /\ PolyExtractOpen(output.bytes, password)
    \/ \E data \in PolyForeign, password \in PolyExtractPasswords :
          /\ ppc = "Idle"
          /\ PolyExtractOpen(data, password)
    \/ PolyExtractRead
    \/ PolyExtractFinally

SpecPoly == InitPoly /\ [][NextPoly]_vars

\* The loop of _fix_zip_offsets runs in the thread of its caller, which
\* keeps running: a turn that can be taken is taken.
SpecPolyFair == SpecPoly /\ WF_vars(FixEntry)

(***************************************************************************)
(* The QR codec: one encode, then one decode of its text, or one decode    *)
(* of the text of a foreign QR code.                                       *)
(***************************************************************************)
InitQR == StegoIdle /\ PolyIdle /\ QrIdle /\ LegacyIdle /\ CleanIdle /\ RouteIdle /\ HAS_PYZIPPER = FALSE

NextQR ==
    \/ \E public \in QrPublics, secret \in QrSecrets, password \in QrPasswords,
          s \in Salts, iv \in QrIvs :
          /\ dpc = "Idle"
          /\ QrEncodeStart(public, secret, password, s, iv)
    \/ QrBuildPayload
    \/ QrCombine
    \/ QrMake
    \/ QrTempCreate
    \/ QrSaveTemp
    \/ \E logo_path \in Logos : QrLogo(logo_path)
    \/ QrWriteOutput
    \/ QrCleanup
    \/ \E password \in QrDecodePasswords :
          /\ gpc = "Returned"
          /\ QrDecodeOpen(qr_image.text, password)
    \/ \E text \in ForeignQr, password \in QrDecodePasswords :
          /\ qpc = "Idle"
          /\ QrDecodeOpen(text, password)
    \/ QrSplit
    \/ QrBase64Decode
    \/ QrReadSecret

SpecQR == InitQR /\ [][NextQR]_vars

(***************************************************************************)
(* The single-file application under two concurrent requests.              *)
(***************************************************************************)
InitLegacy == StegoIdle /\ PolyIdle /\ QrIdle /\ LegacyIdle /\ CleanIdle /\ RouteIdle /\ HAS_PYZIPPER = FALSE

NextLegacy ==
    \E r \in Requests :
        \/ \E image \in LegacyCarriers, file_data \in LegacyPayloads :
              LegacyHide(r, image, file_data)
        \/ \E image \in LegacyImages : LegacyExtract(r, image)
        \/ LegacyStore(r)
        \/ LegacyDeliver(r)

SpecLegacy == InitLegacy /\ [][NextLegacy]_vars

\* calculate_capacity, routes.py 102-109: the capacity shown for an image.
total_capacity_bytes(total_pixels) == (total_pixels * 3) \div 8

(***************************************************************************)
(* Properties of the steganography engine.                                 *)
(***************************************************************************)
ExtractEnded == xpc \in {"Done", "Failed"}

\* extract_file_from_image has ended on the image hide_file_in_image saved.
ExtractedOutput ==
    /\ hpc = "Done"
    /\ ExtractEnded
    /\ data_bytes = BytesFromPixels(out_file.pixels)

\* The tuple extract must return for the file that was hidden.
Hidden ==
    [file_data |-> hin.file.data,
     original_filename |-> hin.file.name,
     mime_type |-> MimeOf(hin.file.name)]

\* C1: round trip. Whenever hide has written its image and extract of that
\* image with the same password has ended, extract has returned exactly the
\* hidden bytes, the file name and the mime type.
C1_RoundTrip ==
    (ExtractedOutput /\ xpassword = hin.password)
        => (xpc = "Done" /\ xresult = Hidden)

\* The round trip does hold for every file whose name holds no '|'.
RoundTripWithoutSeparator ==
    (ExtractedOutput /\ xpassword = hin.password
        /\ Len(SplitByte(hin.file.name, 124)) = 1)
        => (xpc = "Done" /\ xresult = Hidden)

\* C2: password isolation. Whenever the image was hidden with password w1
\* and extract with another password w2 has ended, it has failed with the
\* wrong-password error.
C2_PasswordIsolation ==
    (ExtractedOutput /\ Truthy(hin.password) /\ Truthy(xpassword)
        /\ xpassword # hin.password)
        => (xpc = "Failed" /\ xerr = "IncorrectPassword")

\* With another password extract never returns anything, whatever the name.
NoResultWithOtherPassword ==
    (hpc = "Done" /\ Truthy(hin.password) /\ xpassword # hin.password)
        => (xpc # "Done" /\ xresult = NoResult)

\* C3: when the frame's password flag is set and the caller gave no
\* password, the first step after the bits are read fails with
\* PasswordRequired: nothing of the frame has been parsed and no key has
\* been derived.
C3_PasswordRequiredFirst ==
    /\ (xpc \notin {"Idle", "BitsRead"} /\ data_bytes[1] = 1 /\ ~Truthy(xpassword))
          => (xpc = "Failed" /\ xerr = "PasswordRequired")
    /\ xerr = "PasswordRequired" => (kdf_calls = 0 /\ xframe = NoFrame)

C3_Witness ==
    /\ hpc = "Done" /\ Truthy(hin.password)
    /\ xpc = "Failed" /\ xerr = "PasswordRequired" /\ xpassword = ""

\* C4: capacity boundary. Once the capacity check has run, hide has failed
\* with InsufficientCapacity exactly when the frame is longer than
\* floor(n * 3 / 8) bytes: a frame of exactly that many bytes passes, one
\* byte more fails.
CapacityCheckRan ==
    \/ hpc \in {"CapacityChecked", "Embedded", "Done"}
    \/ (hpc = "Failed" /\ herr = "InsufficientCapacity")

C4_CapacityBoundary ==
    /\ CapacityCheckRan =>
          LET cap == total_capacity_bytes(Len(hin.image)) IN
          /\ Len(data_to_hide) <= cap => hpc # "Failed"
          /\ Len(data_to_hide) >= cap + 1 =>
                (hpc = "Failed" /\ herr = "InsufficientCapacity")
    /\ herr = "InsufficientCapacity" =>
          (hpc = "Failed" /\ Len(data_to_hide) * 8 > Len(hin.image) * 3)

\* A frame that fills the carrier to the last bit has been embedded.
C4_Witness ==
    /\ hpc = "Done"
    /\ Len(data_to_hide) * 8 = Len(hin.image) * 3

\* One byte more than the capacity has been refused.
C4_OneMoreRefused ==
    /\ hpc = "Failed" /\ herr = "InsufficientCapacity"
    /\ Len(data_to_hide) = total_capacity_bytes(Len(hin.image)) + 1

\* C5: embedding is all or nothing. Until the capacity check has passed no
\* pixel differs from the carrier's and no output file exists, and a failed
\* hide leaves both so.
C5_AllOrNothing ==
    /\ hpc \in {"Opened", "Compressed", "Encrypted", "FrameSerialized",
                "CapacityChecked", "Failed"}
          => (host_pixels = ConvertRGB(hin.image) /\ out_file = NoFile)
    /\ out_file # NoFile =>
          (hpc = "Done" /\ ~CapacityExceeded(Len(data_to_hide), Len(hin.image)))

C5_Witness ==
    /\ hpc = "Failed" /\ herr = "InsufficientCapacity"
    /\ Embed(hin.image, PySlice(data_to_hide, 0, total_capacity_bytes(Len(hin.image))))
          # hin.image


(***************************************************************************)
(* Properties of the polyglot composer.                                    *)
(***************************************************************************)
PolyExtractEnded == epc \in {"Done", "Failed"}

\* The archive create_polyglot builds before it is appended to the carrier.
Standalone == ZipArchive(PolyEntry)

\* The bytes and name a strict reader (directory offsets taken from the
\* start of the file) gets from the first member, <<"error">> on failure.
ReadAsArchive(bytes, password) ==
    LET z == ZipOpen(bytes) IN
    IF z.err # "" \/ z.entries = <<>> \/ z.concat # 0 THEN <<"error">>
    ELSE LET r == ZipRead(bytes, z.entries[1], 0, password, HAS_PYZIPPER)
         IN  IF r.err # "" THEN <<"error">>
             ELSE <<r.data, ZipName(bytes, z.entries[1])>>

\* C6: polyglot duality.  Once create_polyglot has returned for a carrier
\* and a hidden file (no password), the output starts with the carrier's
\* bytes, the whole output read as a standalone archive yields the hidden
\* file's bytes and name, and extract_from_polyglot of the output returns
\* exactly those bytes and that name, also when the carrier itself holds the
\* local-file-header signature PK\x03\x04.
C6_PolyglotDuality ==
    (ppc = "Done" /\ pin.password = None) =>
        /\ PySlice(output.bytes, 0, Len(pin.carrier)) = pin.carrier
        /\ ReadAsArchive(output.bytes, None) = <<pin.file.data, pin.file.name>>
        /\ (PolyExtractEnded /\ epassword = None) =>
              /\ epc = "Done"
              /\ eresult = [file_data |-> pin.file.data,
                            first_file |-> pin.file.name]

\* A polyglot whose carrier holds PK\x03\x04 has been extracted.
C6_Witness ==
    /\ ppc = "Done"
    /\ pin.password = None
    /\ Find(pin.carrier, SigLocal) # -1
    /\ Len(pin.file.data) > 0
    /\ epc = "Done"
    /\ epassword = None
    /\ eresult.file_data = pin.file.data

\* The positions of the offset fields in the output: the end record's
\* directory offset and each directory entry's local-header offset.
EocdFieldPos == Len(pin.carrier) + Len(Standalone) - EocdSize + 16

StandaloneCdOffset == FieldLE(Standalone, Len(Standalone) - EocdSize + 16, 4)

StandaloneEntries ==
    CentralEntries(Standalone, StandaloneCdOffset, Len(Standalone) - EocdSize)

\* The output with its offset fields written back to the standalone values.
RECURSIVE RestoreEntries(_, _, _)
RestoreEntries(bytes, entries, k) ==
    IF k > Len(entries) THEN bytes
    ELSE RestoreEntries(
             WriteLE4(bytes, Len(pin.carrier) + entries[k] + 42,
                      FieldLE(Standalone, entries[k] + 42, 4)),
             entries, k + 1)

Restored ==
    RestoreEntries(WriteLE4(output.bytes, EocdFieldPos, StandaloneCdOffset),
                   StandaloneEntries, 1)

\* C7: when _fix_zip_offsets has returned, the end record's central
\* directory offset and the local-header offset of every directory entry
\* each hold the standalone archive's value plus len(carrier) (added once,
\* no entry skipped, the sum not reduced modulo 2^32), and no other byte of
\* carrier + archive has changed.
C7_OffsetsShifted ==
    ppc \in {"Patched", "Done"} =>
        /\ StandaloneEntries # <<>>
        /\ FieldLE(output.bytes, EocdFieldPos, 4)
              = StandaloneCdOffset + Len(pin.carrier)
        /\ \A k \in 1..Len(StandaloneEntries) :
              FieldLE(output.bytes, Len(pin.carrier) + StandaloneEntries[k] + 42, 4)
                 = FieldLE(Standalone, StandaloneEntries[k] + 42, 4) + Len(pin.carrier)
        /\ Restored = pin.carrier \o Standalone

\* A non-empty carrier has shifted both fields.
C7_Witness ==
    /\ ppc = "Done"
    /\ Len(pin.carrier) > 0
    /\ FieldLE(output.bytes, EocdFieldPos, 4) = StandaloneCdOffset + Len(pin.carrier)
    /\ FieldLE(output.bytes, FieldLE(output.bytes, EocdFieldPos, 4) + 42, 4)
          = Len(pin.carrier)

\* C8: create_polyglot leaves a complete polyglot or no file at all: when
\* it fails, no file exists at output_path.
C8_NoOutputOnFailure == ppc = "Failed" => ~output.exists

\* What does hold: a failure before the concatenated write leaves no output.
NoOutputBeforeWrite ==
    (ppc = "Failed" /\ (pin.fault = "carrier" \/ ~pin.file.exists)) => ~output.exists

\* Offset patching failed between the end record and the directory entry.
PartiallyPatched ==
    /\ ppc = "Failed"
    /\ pin.fault = "patch_entry"
    /\ Len(pin.carrier) > 0
    /\ output.exists
    /\ ReadAsArchive(output.bytes, pin.password) = <<"error">>

(***************************************************************************)
(* Properties of the QR codec.                                             *)
(***************************************************************************)
QrDecodeEnded == dpc \in {"Done", "Failed"}

\* The decode in progress reads the text the encode produced.
DecodesEncoded == qpc = "Done" /\ qr_data = combined_qr_data

\* C9: QR round trip with a password.  For every public_text, secret_text
\* and non-empty password, decoding the text encode produced with the same
\* password returns (public_text, secret_text), and decoding it without a
\* password fails with PasswordRequired.
C9_QrRoundTrip ==
    (DecodesEncoded /\ Truthy(qin.password) /\ QrDecodeEnded) =>
        /\ dpassword = qin.password =>
              /\ dpc = "Done"
              /\ dresult.public_data = qin.public_data
              /\ dresult.secret_text = qin.secret_text
        /\ ~Truthy(dpassword) => (dpc = "Failed" /\ derr = "PasswordRequired")

\* What does hold: the round trip of a public text without the marker.
QrRoundTripWithoutMarker ==
    (DecodesEncoded /\ Truthy(qin.password) /\ QrDecodeEnded
       /\ Find(qin.public_data, Marker) = -1) =>
        /\ dpassword = qin.password =>
              /\ dpc = "Done"
              /\ dresult.public_data = qin.public_data
              /\ dresult.secret_text = qin.secret_text
        /\ ~Truthy(dpassword) => (dpc = "Failed" /\ derr = "PasswordRequired")

\* The fragment has been base64-decoded without error.
Base64Decoded ==
    /\ dpc \in {"Decoded", "Done", "Failed"}
    /\ secret_encoded # <<>>
    /\ b64decode(secret_encoded).err = ""

\* C10 as stated: decoding with no password fails with PasswordRequired
\* whenever the base64-decoded fragment has 32 bytes or more, and returns
\* the fragment as the UTF-8 secret whenever it has fewer than 32 bytes.
C10_AsStated ==
    (QrDecodeEnded /\ ~Truthy(dpassword) /\ Base64Decoded) =>
        /\ Len(decoded_payload) >= SaltIvLen =>
              (dpc = "Failed" /\ derr = "PasswordRequired" /\ ~dresult.returned)
        /\ Len(decoded_payload) < SaltIvLen =>
              (dpc = "Done" /\ dresult.returned)

\* C10 (amended): decoding with no password fails with PasswordRequired
\* whenever the base64-decoded fragment has 32 bytes or more; a fragment of
\* fewer than 32 bytes is returned as the secret when it is well-formed
\* UTF-8, and fails with the generic decode error when it is not.
C10_PlainThreshold ==
    (QrDecodeEnded /\ ~Truthy(dpassword) /\ Base64Decoded) =>
        /\ Len(decoded_payload) >= SaltIvLen =>
              (dpc = "Failed" /\ derr = "PasswordRequired" /\ ~dresult.returned)
        /\ (Len(decoded_payload) < SaltIvLen /\ Utf8Valid(decoded_payload)) =>
              /\ dpc = "Done"
              /\ dresult.returned
              /\ Utf8Encode(dresult.secret_text) = decoded_payload
        /\ (Len(decoded_payload) < SaltIvLen /\ ~Utf8Valid(decoded_payload)) =>
              (dpc = "Failed" /\ derr = "FailedToDecrypt" /\ ~dresult.returned)

\* A fragment of exactly 32 bytes has been refused without a password.
C10_Witness ==
    /\ dpc = "Failed"
    /\ derr = "PasswordRequired"
    /\ dpassword = None
    /\ Base64Decoded
    /\ Len(decoded_payload) = SaltIvLen

\* A fragment of 31 bytes has been returned as text.
C10_JustBelowReturned ==
    /\ dpc = "Done"
    /\ dpassword = None
    /\ Base64Decoded
    /\ Len(decoded_payload) = SaltIvLen - 1
    /\ dresult.secret_text = qin.secret_text

\* A short fragment that is not UTF-8 has been refused.
C10_ShortNotUtf8 ==
    /\ dpc = "Failed"
    /\ derr = "FailedToDecrypt"
    /\ dpassword = None
    /\ Base64Decoded
    /\ decoded_payload = <<255>>

\* The decode used a non-empty password other than the one of the encode.
DecodedWithOtherPassword ==
    /\ DecodesEncoded
    /\ Find(qin.public_data, Marker) = -1
    /\ Truthy(qin.password)
    /\ Truthy(dpassword)
    /\ dpassword # qin.password
    /\ QrDecodeEnded

\* C11: QR decode with a password other than the one used to encode always
\* fails (padding is validated before it is stripped): no secret text,
\* garbage or empty, is returned as a success value.
C11_WrongPasswordFails ==
    DecodedWithOtherPassword => (dpc = "Failed" /\ ~dresult.returned)

\* What does hold: the secret of the encode is never what comes back.
WrongPasswordNeverRevealsSecret ==
    (DecodedWithOtherPassword /\ dresult.returned /\ qin.secret_text # <<>>)
        => dresult.secret_text # qin.secret_text

\* The split of lines 228-231 (or the branch of 288-294) has run.
QrSplitRan == dpc \in {"Split", "Decoded", "Done", "Failed"}

\* C12: decode splits the text on the first '#IVDATA:': the public text is
\* everything before the first marker and the encoded secret everything
\* after it, also when the marker occurs more than once; a text without
\* the marker is returned as (text, "").
C12_SplitOnFirstMarker ==
    QrSplitRan =>
        LET first == Find(qr_data, Marker) IN
        IF first # -1
        THEN /\ public_data = PySlice(qr_data, 0, first)
             /\ secret_encoded = PyFrom(qr_data, first + Len(Marker))
        ELSE /\ dpc = "Done"
             /\ dresult = [public_data |-> qr_data, secret_text |-> <<>>,
                           returned |-> TRUE]

\* What does hold: the same, for texts that hold the marker at most once.
SplitOfSingleMarker ==
    (QrSplitRan /\ Len(SplitSeq(qr_data, Marker)) <= 2) =>
        LET first == Find(qr_data, Marker) IN
        IF first # -1
        THEN /\ public_data = PySlice(qr_data, 0, first)
             /\ secret_encoded = PyFrom(qr_data, first + Len(Marker))
        ELSE /\ dpc = "Done"
             /\ dresult = [public_data |-> qr_data, secret_text |-> <<>>,
                           returned |-> TRUE]

\* The file holds no archive signature at all.
NoArchiveSignature(data) ==
    /\ Find(data, SigLocal) = -1
    /\ Find(data, SigCentral) = -1
    /\ Find(data, SigEocd) = -1

\* The file ends with an archive that has no members.
EmbedsEmptyArchive(data) ==
    LET z == ZipOpen(data) IN z.err = "" /\ z.entries = <<>>

\* C13: extract_from_polyglot fails with the NotAPolyglot error ("No hidden
\* file found") when the input holds no archive signature, and with the
\* EmptyArchive error ("ZIP archive is empty") when the embedded archive
\* has zero entries.
C13_DistinctErrors ==
    PolyExtractEnded =>
        /\ NoArchiveSignature(edata) => (epc = "Failed" /\ eerr = "NoHiddenFile")
        /\ EmbedsEmptyArchive(edata) => (epc = "Failed" /\ eerr = "EmptyArchive")

\* What does hold: no signature gives NoHiddenFile, and an empty archive
\* is reported as such only when PK\x03\x04 occurs somewhere before it.
EmptyArchiveNeedsLocalSignature ==
    PolyExtractEnded =>
        /\ NoArchiveSignature(edata) => (epc = "Failed" /\ eerr = "NoHiddenFile")
        /\ (EmbedsEmptyArchive(edata) /\ Find(edata, SigLocal) # -1)
              => (epc = "Failed" /\ eerr = "EmptyArchive")
        /\ (EmbedsEmptyArchive(edata) /\ Find(edata, SigLocal) = -1)
              => (epc = "Failed" /\ eerr = "NoHiddenFile")

\* A polyglot made with a password has been given to extract_from_polyglot.
ProtectedExtracted ==
    /\ ppc = "Done"
    /\ Truthy(pin.password)
    /\ PolyExtractEnded

\* C14: for a polyglot created with password w1, extract_from_polyglot
\* with a password w2 # w1 fails with the wrong-password error and returns
\* no file bytes; with w1 it returns the original bytes and name.
C14_PolyglotPassword ==
    ProtectedExtracted =>
        /\ (Truthy(epassword) /\ epassword # pin.password) =>
              (epc = "Failed" /\ eerr = "IncorrectPassword"
                 /\ eresult = NoPolyResult)
        /\ epassword = pin.password =>
              /\ epc = "Done"
              /\ eresult = [file_data |-> pin.file.data,
                            first_file |-> pin.file.name]

\* What does hold: the same when pyzipper is installed, and the round trip
\* with the creation password in either case.
PolyglotPasswordWithPyzipper ==
    ProtectedExtracted =>
        /\ (HAS_PYZIPPER /\ Truthy(epassword) /\ epassword # pin.password) =>
              (epc = "Failed" /\ eerr = "IncorrectPassword"
                 /\ eresult = NoPolyResult)
        /\ (HAS_PYZIPPER /\ ~Truthy(epassword)) =>
              (epc = "Failed" /\ eerr = "PasswordRequired")
        /\ epassword = pin.password =>
              /\ epc = "Done"
              /\ eresult = [file_data |-> pin.file.data,
                            first_file |-> pin.file.name]

\* Lines 175-187 have run on the recovered bytes.
FrameParseRan == xpc \in {"FrameParsed", "Decrypted", "Done", "Failed"} /\ xerr # "PasswordRequired"

\* A declared length reaches past the end of the recovered bytes.
DeclaredPastEnd(bytes) ==
    LET off1 == MetadataLengthPos(bytes)
        off3 == DataLengthPos(bytes)
    IN  \/ off1 + 2 + FromBytesBE(PySlice(bytes, off1, off1 + 2)) > Len(bytes)
        \/ off3 + 4 + FromBytesBE(PySlice(bytes, off3, off3 + 4)) > Len(bytes)

\* C15: frame deserialization treats the declared lengths as untrusted:
\* when offset + declared length exceeds the number of recovered bytes,
\* extract fails and never proceeds with a cut-short metadata or payload
\* slice.
C15_LengthsChecked ==
    (FrameParseRan /\ DeclaredPastEnd(data_bytes)) =>
        (xpc = "Failed" /\ xresult = NoResult)

\* A payload whose declared length is past the end has been returned.
TruncatedPayloadReturned ==
    /\ xpc = "Done"
    /\ DeclaredPastEnd(data_bytes)
    /\ xresult.file_data = hin.file.data

\* What does hold: a metadata length past the end ends in an error.
MetadataPastEndFails ==
    (FrameParseRan /\ xpc # "FrameParsed"
       /\ LET off1 == MetadataLengthPos(data_bytes)
          IN  off1 + 2 + FromBytesBE(PySlice(data_bytes, off1, off1 + 2))
                 > Len(data_bytes))
        => xpc = "Failed"

(***************************************************************************)
(* Properties of concurrent invocations.                                   *)
(***************************************************************************)
\* The requests work on inputs of their own.
IndependentInputs == \A r, q \in Requests : r # q => lin[r] # lin[q]

\* C16: no shared mutable state between invocations.  Under any
\* interleaving of two invocations on independent inputs, no file is
\* written by both, and each invocation delivers what it would deliver
\* when run alone.
C16_NoSharedState ==
    IndependentInputs =>
        /\ \A r, q \in Requests :
              (r # q /\ lpc[r] \in {"Stored", "Done"} /\ lpc[q] \in {"Stored", "Done"})
                 => LegacyPath(lin[r]) # LegacyPath(lin[q])
        /\ \A r \in Requests : lpc[r] = "Done" => lout[r] = LegacyCompute(lin[r])

\* One request has been handed the other request's result.
ResultOfOtherRequest ==
    \E r, q \in Requests :
        /\ r # q
        /\ lpc[r] = "Done"
        /\ lin[r].op = "extract"
        /\ lin[q].op = "extract"
        /\ lout[r] # LegacyCompute(lin[r])
        /\ lout[r] = LegacyCompute(lin[q])

\* What does hold: a request that runs while the other is idle or has
\* failed gets its own result.
AloneGetsOwnResult ==
    \A r, q \in Requests :
        (r # q /\ lpc[r] = "Done" /\ lpc[q] \in {"Idle", "Failed"})
            => lout[r] = LegacyCompute(lin[r])
(***************************************************************************)
(* The capacity scenario.                                                  *)
(***************************************************************************)
HideEnded == hpc \in {"Done", "Failed"}

\* hide_file_in_image has ended on a 100x100 carrier and a file named
\* note.txt, without a password.
ScenarioHide ==
    /\ HideEnded
    /\ hin.image \in ScenarioCarriers
    /\ hin.file.name = ScenarioName
    /\ hin.password = None

InsufficientCapacity == hpc = "Failed" /\ herr = "InsufficientCapacity" /\ ~out_file.exists

\* The scenario as stated: the 3,000-byte file is hidden and the 4,000-byte
\* file is refused with InsufficientCapacity, whatever the file holds.
C17_AsStated ==
    ScenarioHide =>
        /\ Len(hin.file.data) = 3000 => hpc = "Done"
        /\ Len(hin.file.data) = 4000 => InsufficientCapacity

\* C17: with a 100x100 RGB carrier (3,750 bytes of capacity) and no
\* password, hiding a 3,000-byte file named note.txt succeeds for every
\* content; hiding a 4,000-byte file fails with InsufficientCapacity when
\* the frame of its compressed content (26 bytes and the compressed bytes)
\* is longer than 3,750 bytes, and succeeds when the content compresses
\* below that, as a run of one byte does.
C17_Scenario ==
    ScenarioHide =>
        /\ Len(hin.file.data) = 3000 => hpc = "Done"
        /\ (Len(hin.file.data) = 4000 /\ 26 + Len(compressed_data) > 3750)
              => InsufficientCapacity
        /\ (Len(hin.file.data) = 4000 /\ IsRun(hin.file.data))
              => (hpc = "Done" /\ out_file.exists)

\* A 4,000-byte file has been hidden in the 100x100 carrier and extract has
\* returned it from the saved image.
C17_Witness ==
    /\ ScenarioHide
    /\ Len(hin.file.data) = 4000
    /\ hpc = "Done"
    /\ xpc = "Done"
    /\ xresult = Hidden

\* A 4,000-byte file that does not compress is refused.
LongIncompressibleRefused ==
    /\ ScenarioHide
    /\ Len(hin.file.data) = 4000
    /\ InsufficientCapacity

(***************************************************************************)
(* The layout of the frame.                                                *)
(***************************************************************************)
\* hide_file_in_image has built data_to_hide.
FrameWritten == data_to_hide # <<>>

\* extract_file_from_image has read the bits of the image hide saved.
ReadsOutput ==
    /\ hpc = "Done"
    /\ xpc # "Idle"
    /\ data_bytes = BytesFromPixels(out_file.pixels)

\* C18: the frame written by hide is password_flag (1 byte, 0 or 1), salt
\* (16 bytes, only when the flag is 1), metadata_len (2 bytes big-endian),
\* metadata = "{filename}|{mime_type}", payload_len (4 bytes big-endian),
\* payload, and nothing else; extract reads the length fields at those
\* offsets and the fields in that order.
C18_FrameLayout ==
    LET f == data_to_hide
        flagged == Truthy(hin.password)
        o == IF flagged THEN 17 ELSE 1
        metadata == hin.file.name \o <<124>> \o MimeOf(hin.file.name)
        m == Len(metadata)
        d == Len(compressed_data)
    IN  /\ FrameWritten =>
              /\ Len(f) = o + 2 + m + 4 + d
              /\ f[1] = (IF flagged THEN 1 ELSE 0)
              /\ flagged => (Len(salt) = 16 /\ SubSeq(f, 2, 17) = salt)
              /\ SubSeq(f, o + 1, o + 2) = <<m \div 256, m % 256>>
              /\ SubSeq(f, o + 3, o + 2 + m) = metadata
              /\ SubSeq(f, o + m + 3, o + m + 6)
                    = <<d \div 16777216, (d \div 65536) % 256,
                        (d \div 256) % 256, d % 256>>
              /\ SubSeq(f, o + m + 7, Len(f)) = compressed_data
        /\ ReadsOutput =>
              /\ MetadataLengthPos(data_bytes) = o
              /\ DataLengthPos(data_bytes) = o + 2 + m
              /\ xpc = "FrameParsed" =>
                    /\ xframe.has_password = flagged
                    /\ xframe.salt = salt
                    /\ xframe.original_filename \o <<124>> \o xframe.mime_type
                          = metadata
                    /\ xframe.compressed_data = compressed_data

\* A frame with a salt has been written, embedded, and parsed again.
C18_Witness ==
    /\ FrameWritten
    /\ data_to_hide[1] = 1
    /\ ReadsOutput
    /\ xpc = "FrameParsed"

\* A frame without a salt has been parsed again.
UnsaltedFrameParsed ==
    /\ FrameWritten
    /\ data_to_hide[1] = 0
    /\ ReadsOutput
    /\ xpc = "FrameParsed"

(***************************************************************************)
(* The salt and the payload length of the frame.                           *)
(***************************************************************************)
\* The bytes of the frame after its data_length field.
PayloadOfFrame(f) == PyFrom(f, DataLengthPos(f) + 4)

\* The value of the data_length field of the frame.
PayloadLengthField(f) ==
    FromBytesBE(PySlice(f, DataLengthPos(f), DataLengthPos(f) + 4))

\* The bytes between the flag and the metadata_length field, given the
\* metadata hide wrote.
SaltOfFrame(f) ==
    LET metadata == hin.file.name \o <<124>> \o MimeOf(hin.file.name)
        fields == 1 + 2 + Len(metadata) + 4
    IN  PySlice(f, 1, Len(f) - fields - Len(compressed_data) + 1)

\* C19: in every frame produced by hide the salt is present if and only if
\* the password flag is set, and the payload_length field equals the length
\* of the payload bytes embedded, which are the ciphertext when a password
\* is given and the compressed data otherwise.
C19_SaltAndLength ==
    FrameWritten =>
        LET f == data_to_hide
            compressed == zlib_compress(hin.file.data)
        IN  /\ f[1] \in {0, 1}
            /\ f[1] = 1 <=> Truthy(hin.password)
            /\ f[1] = 1 <=> SaltOfFrame(f) # <<>>
            /\ SaltOfFrame(f) = salt
            /\ f[1] = 1 => salt \in Salts
            /\ PayloadLengthField(f) = Len(PayloadOfFrame(f))
            /\ PayloadOfFrame(f) =
                  (IF Truthy(hin.password)
                   THEN FernetEncrypt(_derive_key_from_password(hin.password, salt),
                                      compressed)
                   ELSE compressed)
            /\ hpc = "Done" =>
                  PySlice(BytesFromPixels(out_file.pixels), 0, Len(f)) = f

\* An encrypted frame, whose payload is longer than the compressed data,
\* has been embedded and saved.
C19_Witness ==
    /\ FrameWritten
    /\ hpc = "Done"
    /\ data_to_hide[1] = 1
    /\ PayloadLengthField(data_to_hide) > Len(zlib_compress(hin.file.data))

\* The empty password sets no flag and adds no salt.
EmptyPasswordUnflagged ==
    /\ FrameWritten
    /\ hpc = "Done"
    /\ hin.password = ""
    /\ data_to_hide[1] = 0
    /\ salt = <<>>

(***************************************************************************)
(* The embedding.                                                          *)
(***************************************************************************)
\* The embedding loop of hide_file_in_image has run.
Embedded == hpc \in {"Embedded", "Done"}

\* C20: embedding changes only the least significant bit of the first 3
\* channels of the pixels it consumes, pixel by pixel and channel by channel,
\* one frame bit per channel, the highest bit of each byte first: the upper
\* 7 bits of every channel are unchanged, and every channel after the last
\* frame bit is unmodified.  extract reads the bits back in that order.
C20_LsbOnly ==
    /\ Embedded =>
          LET before == ConvertRGB(hin.image)
              after == host_pixels
              nbits == 8 * Len(data_to_hide)
          IN  /\ Len(after) = Len(before)
              /\ \A i \in 1..Len(after) :
                    /\ DOMAIN after[i] = 1..3
                    /\ \A c \in 1..3 :
                          LET k == 3 * (i - 1) + (c - 1) IN
                          /\ after[i][c] \div 2 = before[i][c] \div 2
                          /\ k < nbits =>
                                after[i][c] % 2 =
                                  (data_to_hide[(k \div 8) + 1]
                                     \div Pow(2, 7 - (k % 8))) % 2
                          /\ k >= nbits => after[i][c] = before[i][c]
              /\ hpc = "Done" => out_file.pixels = after
    /\ ReadsOutput => PySlice(data_bytes, 0, Len(data_to_hide)) = data_to_hide

\* A frame has been embedded in the carrier with four channels and has
\* changed it, channels after the last frame bit exist, and extract has read
\* the saved image.
C20_Witness ==
    /\ hpc = "Done"
    /\ hin.image = CarrierRGBA
    /\ host_pixels # ConvertRGB(hin.image)
    /\ 8 * Len(data_to_hide) < 3 * Len(host_pixels)
    /\ ReadsOutput

\* The transparency of a carrier with four channels is not in the saved
\* image: the conversion of line 51, before the embedding, drops it.
TransparencyDropped ==
    /\ hpc = "Done"
    /\ hin.image = CarrierRGBA
    /\ \A i \in 1..Len(out_file.pixels) : DOMAIN out_file.pixels[i] = 1..3

(***************************************************************************)
(* The order of the pipeline.                                              *)
(***************************************************************************)
\* C21: on hide the file is compressed before any encryption and the
\* encryption precedes the serialization of the frame; on extract the
\* decryption (if any) precedes the decompression, and the decompression is
\* the last step before the result is returned.
C21_PipelineOrder ==
    [][/\ (hpc' = "Compressed" /\ hpc # "Compressed") =>
             (hpc = "Opened" /\ salt = <<>>
                /\ compressed_data' = zlib_compress(hin.file.data))
       /\ (hpc' = "Encrypted" /\ hpc # "Encrypted") =>
             /\ hpc = "Compressed"
             /\ data_to_hide = <<>>
             /\ compressed_data = zlib_compress(hin.file.data)
             /\ compressed_data' =
                   (IF Truthy(hin.password)
                    THEN FernetEncrypt(
                           _derive_key_from_password(hin.password, salt'),
                           compressed_data)
                    ELSE compressed_data)
       /\ (hpc' = "FrameSerialized" /\ hpc # "FrameSerialized") =>
             (hpc = "Encrypted" /\ PayloadOfFrame(data_to_hide') = compressed_data)
       /\ (xpc' = "Decrypted" /\ xpc # "Decrypted") =>
             /\ xpc = "FrameParsed"
             /\ xresult = NoResult
             /\ xframe'.compressed_data =
                   (IF xframe.has_password
                    THEN FernetDecrypt(
                           _derive_key_from_password(xpassword, xframe.salt),
                           xframe.compressed_data)
                    ELSE xframe.compressed_data)
       /\ (xpc' = "Done" /\ xpc # "Done") =>
             /\ xpc = "Decrypted"
             /\ xresult'.file_data = zlib_decompress(xframe.compressed_data)
       /\ xresult' # xresult => xpc' = "Done"]_vars

\* A file hidden with a password has gone through every step of hide and of
\* extract: the returned bytes are the decompressed, decrypted payload.
C21_Witness ==
    /\ hpc = "Done"
    /\ Truthy(hin.password)
    /\ ReadsOutput
    /\ xpc = "Done"
    /\ xpassword = hin.password
    /\ kdf_calls = 1
    /\ xresult.file_data = hin.file.data

(***************************************************************************)
(* The walk over the central directory.                                    *)
(***************************************************************************)
\* The walk of lines 112-136 is at cd_pos.
Walking == ppc = "EocdPatched"

\* The four bytes at cd_pos are the signature of a central directory entry.
AtCentralEntry == PySlice(output.bytes, cd_pos, cd_pos + 4) = <<80, 75, 1, 2>>

\* The size of the entry at cd_pos, from the three length fields it holds.
EntrySizeAt(bytes, pos) ==
    46 + FromBytesLE(PySlice(bytes, pos + 28, pos + 30))
       + FromBytesLE(PySlice(bytes, pos + 30, pos + 32))
       + FromBytesLE(PySlice(bytes, pos + 32, pos + 34))

\* C22: the walk of the offset patcher always terminates: each turn
\* advances by 46 + name_length + extra_length + comment_length read from
\* the entry it is at, the walk stops at the first position whose 4 bytes
\* are not the entry signature (the end of the file included), whatever
\* the entry count stored in the end record says.
C22_WalkTerminates ==
    /\ [][/\ (Walking /\ AtCentralEntry) =>
               \/ (ppc' = "Raising" /\ cd_pos' = cd_pos)
               \/ /\ Walking'
                  /\ cd_pos' = cd_pos + EntrySizeAt(output.bytes, cd_pos)
                  /\ cd_pos' > cd_pos
          /\ (Walking /\ ~AtCentralEntry) =>
               (ppc' = "Patched" /\ cd_pos' = cd_pos /\ output' = output)]_vars
    /\ (Walking ~> ~Walking)

\* The walk has stopped behind the one entry of the directory, at the
\* signature of the end record.
C22_Witness ==
    /\ ppc = "Patched"
    /\ cd_pos > Len(pin.carrier)
    /\ PySlice(output.bytes, cd_pos, cd_pos + 4) = SigEocd
    /\ perr = ""

(***************************************************************************)
(* The bytes of the polyglot.                                              *)
(***************************************************************************)
\* create_polyglot has written the archive behind the carrier.
Assembled == output.exists /\ Len(output.bytes) # Len(pin.carrier)

\* The 0-based positions, in the standalone archive, of the bytes of the
\* end record's directory-offset field and of the local-header-offset field
\* of every directory entry.
OffsetFieldBytes ==
    {Len(Standalone) - EocdSize + 16 + j : j \in 0..3}
    \cup {StandaloneEntries[k] + 42 + j : k \in 1..Len(StandaloneEntries), j \in 0..3}

\* C23: the polyglot output has length len(carrier) + len(archive), begins
\* with the carrier byte for byte, and the rest equals the standalone
\* archive except for the end record's central-directory-offset field and
\* the local-header-offset fields of the directory entries; the patcher
\* writes no other byte.
C23_OnlyOffsetsPatched ==
    Assembled =>
        /\ Len(output.bytes) = Len(pin.carrier) + Len(Standalone)
        /\ \A i \in 1..Len(pin.carrier) : output.bytes[i] = pin.carrier[i]
        /\ \A i \in 1..Len(Standalone) :
              output.bytes[Len(pin.carrier) + i] # Standalone[i]
                 => (i - 1) \in OffsetFieldBytes

\* The patcher has changed bytes of a polyglot with a carrier that is not
\* empty, and create_polyglot has returned.
C23_Witness ==
    /\ ppc = "Done"
    /\ Len(pin.carrier) > 0
    /\ PyFrom(output.bytes, Len(pin.carrier)) # Standalone
    /\ Cardinality({i \in 1..Len(Standalone) :
                       output.bytes[Len(pin.carrier) + i] # Standalone[i]}) >= 2

(***************************************************************************)
(* The padding of the QR encryption.                                       *)
(***************************************************************************)
\* generate_qr_with_stego has built an encrypted payload.
EncryptedPayloadBuilt == qpc \in {"PayloadBuilt", "Done"} /\ Truthy(qin.password)

\* The plaintext blocks under the ciphertext of the payload that was built.
PaddedSecret ==
    CbcDecrypt(Pbkdf2(qin.password, PySlice(secret_payload, 0, 16)),
               PySlice(secret_payload, 16, 32), PyFrom(secret_payload, 32))

\* C24: the padding of the QR encryption is PKCS#7-style: for a secret of n
\* UTF-8 bytes the pad length is 16 - (n mod 16), in 1..16, every pad byte
\* equals the pad length, a full block of 16 is added when n is a multiple
\* of 16, and the padded length is a multiple of 16; decode strips exactly
\* that many bytes.
C24_Pkcs7Padding ==
    EncryptedPayloadBuilt =>
        LET secret_bytes == Utf8Encode(qin.secret_text)
            n == Len(secret_bytes)
            padded == PaddedSecret
            pad == Len(padded) - n
        IN  /\ pad = 16 - (n % 16)
            /\ pad \in 1..16
            /\ Len(padded) % 16 = 0
            /\ n % 16 = 0 => pad = 16
            /\ SubSeq(padded, 1, n) = secret_bytes
            /\ \A i \in (n + 1)..Len(padded) : padded[i] = pad
            /\ (dpc = "Decoded" /\ decoded_payload = secret_payload
                   /\ dpassword = qin.password) =>
                  Len(RemovePadding(padded)) = Len(padded) - pad
            /\ (QrDecodeEnded /\ decoded_payload = secret_payload
                   /\ dpassword = qin.password) =>
                  (dpc = "Done" /\ dresult.secret_text = qin.secret_text)

\* A secret of 32 bytes has been encrypted with a full block of padding and
\* decoded again with its password.
C24_Witness ==
    /\ EncryptedPayloadBuilt
    /\ Len(Utf8Encode(qin.secret_text)) = 32
    /\ Len(PaddedSecret) = 48
    /\ dpc = "Done"
    /\ decoded_payload = secret_payload
    /\ dpassword = qin.password
    /\ dresult.secret_text = qin.secret_text

(***************************************************************************)
(* The cleanup scheduler.                                                  *)
(***************************************************************************)
\* The worker threads that have not left the loop of _run_scheduler.
Looping == {w \in 1..Len(workers) : workers[w].pc # "exited"}

\* C25: at most one cleanup worker thread is running at any time, under
\* every interleaving of start(), stop() and init_cleanup_scheduler()
\* calls.
C25_OneWorker == Cardinality(Looping) <= 1

\* Two workers of one scheduler object loop while its running is True and
\* no call is in progress.
TwoWorkersOfOneScheduler ==
    /\ \A c \in Callers : cpc[c] = "idle"
    /\ \E v, w \in Looping :
          /\ v # w
          /\ workers[v].self = workers[w].self
          /\ running[workers[w].self]
          /\ workers[v].pc = "sleep"
          /\ workers[w].pc = "sleep"

\* What does hold: a start() that finds running True makes no thread.
StartOnRunningSpawnsNothing ==
    [][\A c \in Callers :
          (cpc[c] = "start_check" /\ running[cself[c]] /\ cpc'[c] # "start_check")
             => (cpc'[c] = "idle" /\ workers' = workers)]_vars

\* running of object s is False.
Stopped(s) == s <= Len(running) /\ ~running[s]

\* No worker thread of object s is in the loop of _run_scheduler.
NoneLooping(s) == \A w \in Looping : workers[w].self # s

\* C26: after stop() has set running to False and no later start() sets it
\* again, the worker thread eventually leaves its loop: it looks at the flag
\* in every turn of the sleep loop and after each cleanup pass, it leaves
\* only when the flag is False, and a cleanup pass, whatever it raises,
\* neither ends nor blocks the loop.
C26_WorkerLeaves ==
    /\ [][\A w \in 1..Len(workers) :
            LET s == workers[w].self IN
            /\ (workers[w].pc # "exited" /\ workers'[w].pc = "exited")
                  => (workers[w].pc = "check" /\ ~running[s])
            /\ (workers[w].pc = "cleanup" /\ workers'[w] # workers[w])
                  => workers'[w].pc = "sleep"
            /\ (workers[w].pc = "sleep" /\ workers'[w] # workers[w] /\ ~running[s])
                  => workers'[w].pc = "check"
            /\ (workers[w].pc = "check" /\ workers'[w] # workers[w] /\ ~running[s])
                  => workers'[w].pc = "exited"]_vars
    /\ \A s \in 1..MaxSchedulers : (<>[]Stopped(s)) => (<>[]NoneLooping(s))

\* A worker that was looping has left the loop of a stopped scheduler, and
\* no call is in progress.
C26_Witness ==
    /\ \E w \in 1..Len(workers) :
          /\ workers[w].pc = "exited"
          /\ workers[w].left = IntervalSeconds
          /\ Stopped(workers[w].self)
    /\ \A c \in Callers : cpc[c] = "idle"


(***************************************************************************)
(* The detection cache under concurrent requests.                          *)
(***************************************************************************)
\* Request r has its eviction step (674-676) behind it in the next state.
EvictionOver(r) ==
    /\ reqs[r].pc \in {"scan", "evict"}
    /\ reqs'[r].pc \notin {"scan", "evict"}

\* The live entries of the cache that are more than ExpirySeconds older
\* than time t.
ExpiredAt(cache, t) ==
    {i \in DOMAIN cache :
        cache[i].live /\ t - cache[i].ts > ExpirySeconds}

\* After the eviction step of a request nothing older than five seconds is
\* left in the cache.
NoneExpiredAfterEviction ==
    [][\A r \in Requests :
          EvictionOver(r) =>
              ExpiredAt(qr_detection_cache', reqs[r].current_time) = {}]_vars

\* A response is answered from the cache only when the entry has the hash
\* of the request and is less than a second old.
HitIsFreshAndSame ==
    [][\A r \in Requests :
          (reqs[r].pc = "fetch" /\ reqs'[r].pc = "finally"
              /\ "success" \in DOMAIN reqs'[r].body)
          => \E i \in DOMAIN qr_detection_cache :
                /\ qr_detection_cache[i].live
                /\ qr_detection_cache[i].key = reqs[r].image_hash
                /\ reqs[r].image_hash = md5(reqs[r].image.data)
                /\ reqs[r].current_time - qr_detection_cache[i].ts
                      < HitSeconds
                /\ reqs'[r].body = qr_detection_cache[i].resp]_vars

\* Every request that returns returns a body with a 'detected' field.
AlwaysDetectedField ==
    [][\A r \in Requests :
          (reqs[r].pc # "finally" /\ reqs'[r].pc = "finally")
          => "detected" \in DOMAIN reqs'[r].body]_vars

\* C27: after the eviction step of a request no entry older than 5 seconds
\* remains in the cache, a cached response is returned only when its entry
\* is less than 1 second old and has the same content hash, and under
\* concurrent requests every request returns a response with a 'detected'
\* field.
C27_DetectionCache ==
    /\ NoneExpiredAfterEviction
    /\ HitIsFreshAndSame
    /\ AlwaysDetectedField

\* A request for a frame that shows a QR code is answered 'detected: false'
\* out of its eviction step, which the insertion of a request begun at most
\* a second before it broke off, and an entry older than five seconds is
\* still in the cache.
EvictionBrokenOff ==
    \E r \in Requests :
        /\ reqs[r].pc = "finally"
        /\ reqs[r].image.qr
        /\ ~reqs[r].saved
        /\ reqs[r].body = NotDetected
        /\ ExpiredAt(qr_detection_cache, reqs[r].current_time) # {}
        /\ \E j \in DOMAIN qr_detection_cache :
              /\ qr_detection_cache[j].live
              /\ reqs[r].current_time - qr_detection_cache[j].ts <= HitSeconds

\* A request is answered from the cache.
CacheHitServed ==
    \E r \in Requests :
        /\ reqs[r].pc = "finally"
        /\ ~reqs[r].saved
        /\ "success" \in DOMAIN reqs[r].body

(***************************************************************************)
(* Temporary files.                                                        *)
(***************************************************************************)
CreateEnded == ppc \in {"Done", "Failed"}

GenerateEnded == gpc \in {"Returned", "Failed"}

\* create_polyglot and extract_from_polyglot leave no temporary archive
\* behind, whether they return or raise.
PolyglotTempRemoved ==
    /\ CreateEnded => ~temp_zip.exists
    /\ PolyExtractEnded => ~etemp.exists

\* C28: when create_polyglot, extract_from_polyglot or
\* generate_qr_with_stego has returned or raised, the temporary file it
\* created no longer exists.
C28_TempFilesRemoved ==
    /\ PolyglotTempRemoved
    /\ GenerateEnded => ~temp_qr

\* generate_qr_with_stego has raised and its temporary file is still there.
QrTempLeft == gpc = "Failed" /\ temp_qr

(***************************************************************************)
(* Error messages shown to the client.                                     *)
(***************************************************************************)
\* The keyword classes in the order the claim gives them, with the keywords
\* of each.
ClassOrder == <<"password", "capacity", "validation", "not_found", "generic">>

ClassKeywords ==
    [password |-> {KwPassword, KwIncorrectPassword},
     capacity |-> {KwCapacity, KwNotEnough},
     validation |-> {KwInvalid, KwCorrupt, KwFailedToExtract},
     not_found |-> {KwNotFound},
     generic |-> {<<>>}]

Matches(msg, class) ==
    \E word \in ClassKeywords[class] : Contains(lower(msg), word)

\* The first class of the order that msg matches.
FirstClass(msg) ==
    ClassOrder[CHOOSE i \in DOMAIN ClassOrder :
                  /\ Matches(msg, ClassOrder[i])
                  /\ \A j \in 1..(i - 1) : ~Matches(msg, ClassOrder[j])]

SafeMessages == {SAFE_ERROR_MESSAGES[c] : c \in DOMAIN SAFE_ERROR_MESSAGES}

\* C29: in non-debug mode sanitize_error returns one of the five fixed
\* messages, the one of the first keyword class its argument matches, so
\* two messages of the same class get the same result and the result is
\* no function of the text of the message.
C29_SanitizedByClass ==
    (san_pc = "Returned" /\ ~is_debug) =>
        /\ safe_message \in SafeMessages
        /\ safe_message = SAFE_ERROR_MESSAGES[FirstClass(error_message)]
        /\ \A other \in Messages :
              FirstClass(other) = FirstClass(error_message)
                  => sanitize_error(other, FALSE) = safe_message

\* A message in capitals that names a password and a path has been
\* answered with the password message.
C29_Witness ==
    /\ san_pc = "Returned"
    /\ ~is_debug
    /\ error_message = FrPasswordUpper \o FrPath
    /\ safe_message = SafePassword

\* In debug mode the message is returned as it is.
DebugReturnsOriginal ==
    (san_pc = "Returned" /\ is_debug) => safe_message = error_message

(***************************************************************************)
(* What a pass of cleanup_old_files deletes.                               *)
(***************************************************************************)
\* The step is an os.remove of the pass that succeeded.
SweepDeleted(n) ==
    /\ sweep.pc = "remove"
    /\ sweep'.pc = "next"
    /\ folder[n] # Gone
    /\ folder'[n] = Gone

\* The step is an os.remove of the pass that raised.
RemoveFailed ==
    /\ sweep.pc = "remove"
    /\ sweep'.failed # sweep.failed

\* C30: a pass deletes only regular files of the folder whose age, now -
\* mtime, is strictly greater than max_age_seconds, never a directory or a
\* younger file, and a failed deletion does not keep the remaining files
\* from being examined.
C30_OnlyOldFiles ==
    /\ [][\A n \in Names :
            SweepDeleted(n) =>
                /\ n \in sweep.listed
                /\ folder[n].kind = "file"
                /\ sweep.now - folder[n].mtime > MaxAgeSeconds
                /\ sweep.now - folder[n].mtime # MaxAgeSeconds
                /\ \A other \in Names \ {n} : folder'[other] = folder[other]]_vars
    /\ [][RemoveFailed =>
            /\ sweep'.pc = "next"
            /\ sweep'.todo = sweep.todo
            /\ ~sweep'.aborted
            /\ folder' = folder]_vars
    /\ [](sweep.pc = "done" /\ ~sweep.aborted => sweep.examined = sweep.listed)
    /\ [](sweep.pc = "done" /\ ~sweep.aborted =>
            \A n \in sweep.listed \ sweep.failed :
                ~(folder[n].kind = "file"
                    /\ sweep.now - folder[n].mtime > MaxAgeSeconds))

\* A pass is over in which the deletion of one old file failed and another
\* old file was deleted, and a file of age max_age_seconds exactly or a
\* directory was left alone.
C30_Witness ==
    /\ sweep.pc = "done"
    /\ ~sweep.aborted
    /\ sweep.failed # {}
    /\ sweep.deleted_count > 0
    /\ \E n \in sweep.listed :
          \/ folder[n].kind = "dir"
          \/ folder[n].kind = "file" /\ sweep.now - folder[n].mtime = MaxAgeSeconds

\* A file that a request removed between lines 79 and 83 ends the pass
\* with files left unexamined.
PassBrokenOff ==
    /\ sweep.pc = "done"
    /\ sweep.aborted
    /\ sweep.todo # {}

====
